---- MODULE Spec2Model ----
(***************************************************************************)
(* Model of the finding-consolidation pipeline of ai_reviewer:             *)
(*   - review.py: _normalize_path, _raw_findings_similar,                  *)
(*     _cluster_raw_findings, aggregate_findings, run_single_agent         *)
(*   - orchestrator/aggregator.py: ReviewAggregator                        *)
(*   - orchestrator/orchestrator.py: AgentOrchestrator.review              *)
(*   - agents/base.py: ReviewAgent._parse_findings                         *)
(*   - models/findings.py: Severity, ReviewFinding, ConsolidatedFinding    *)
(*                                                                         *)
(* Text is a sequence of one-character strings, so that strip(), lower(),  *)
(* replace() and lstrip() act on characters as they do in Python.          *)
(* Floats are exact rationals: a confidence is an integer number of        *)
(* hundredths, a ratio is a pair [num, den] compared by cross              *)
(* multiplication.                                                         *)
(***************************************************************************)
EXTENDS Integers, Sequences, FiniteSets, TLC

VARIABLES
    rawA,          \* first raw finding handed to the similarity predicates
    rawB,          \* second raw finding handed to the similarity predicates
    simOut,        \* what the similarity predicate that ran returned
    tagged,        \* list of (agent, finding) handed to the cluster builders
    clusterOut,    \* what the cluster builder that ran returned
    agentRuns,     \* per configured agent: what its LLM call produced
    reviews,       \* AgentOrchestrator.review(): successful AgentReviews
    all_findings,  \* review_pr_with_cursor_agent: gather(run_single_agent)
    result,        \* the ConsolidatedReview of the pipeline that ran
    agentOutputs,  \* per agent: the findings of its decoded JSON response
    parsed,        \* per agent: what ReviewAgent.review made of its response
    jsonReview,    \* what aggregate_findings made of the decoded responses
    orchConfig,    \* AgentOrchestrator: agents, config and the method that runs
    orchPc,        \* where the running method is: start, gather or done
    tasks,         \* the asyncio tasks of the round, in creation order
    settled,       \* the agents whose task settled, in completion order
    remaining_agents, \* review_with_retry: agents the next round runs
    attempts,      \* review_with_retry: rounds finished
    all_reviews,   \* successful AgentReviews collected so far
    orchFailed,    \* review: failed_agents, the failure notes collected
    invoked,       \* per agent: how many times its review() was invoked
    orchResult,    \* what the method returned or raised
    crossIn,       \* apply_cross_review: the review, the assessments, the threshold
    crossOut,      \* apply_cross_review: the review it returned
    deltaIn,       \* compute_review_delta: the PR's comments, findings, files
    deltaOut,      \* compute_review_delta: the ReviewDelta it returned
    patchIn,       \* _parse_modified_lines: the patch, as its lines
    patchOut,      \* _parse_modified_lines: the set of lines it returned
    flowEnv,       \* the reviewer identity, the PR files, the agent runs that may occur
    prComments,    \* the review comments of the pull request on GitHub
    prReviews,     \* how many review bodies were posted on the pull request
    handlers       \* per run of a publish path: where it is and what it did

vars == <<rawA, rawB, simOut, tagged, clusterOut, agentRuns, reviews,
          all_findings, result, agentOutputs, parsed, jsonReview,
          orchConfig, orchPc, tasks, settled, remaining_agents, attempts,
          all_reviews, orchFailed, invoked, orchResult,
          crossIn, crossOut,
          deltaIn, deltaOut, patchIn, patchOut,
          flowEnv, prComments, prReviews, handlers>>

simVars == <<rawA, rawB, simOut>>

clusterVars == <<tagged, clusterOut>>

pipeVars == <<agentRuns, reviews, all_findings, result>>

parseVars == <<agentOutputs, parsed, jsonReview>>

orchVars == <<orchConfig, orchPc, tasks, settled, remaining_agents, attempts,
              all_reviews, orchFailed, invoked, orchResult>>

crossVars == <<crossIn, crossOut>>

deltaVars == <<deltaIn, deltaOut, patchIn, patchOut>>

flowVars == <<flowEnv, prComments, prReviews, handlers>>

\* the variables outside each group
notSim == <<clusterVars, pipeVars, parseVars, orchVars, crossVars,
             deltaVars, flowVars>>

notCluster == <<simVars, pipeVars, parseVars, orchVars, crossVars,
                 deltaVars, flowVars>>

notPipe == <<simVars, clusterVars, parseVars, orchVars, crossVars,
              deltaVars, flowVars>>

notParse == <<simVars, clusterVars, pipeVars, orchVars, crossVars,
               deltaVars, flowVars>>

notOrch == <<simVars, clusterVars, pipeVars, parseVars, crossVars,
              deltaVars, flowVars>>

notCross == <<simVars, clusterVars, pipeVars, parseVars, orchVars,
               deltaVars, flowVars>>

notDelta == <<simVars, clusterVars, pipeVars, parseVars, orchVars,
               crossVars, flowVars>>

notFlow == <<simVars, clusterVars, pipeVars, parseVars, orchVars, crossVars,
              deltaVars>>

\* Python None for an optional int or an optional text; an optional int that is
\* present is the one-element sequence <<n>>
None == <<>>

-----------------------------------------------------------------------------
(* Bounds of the model *)

MaxPathLen == 3
MaxFindings == 3
MaxMergeFindings == 2
MaxAgents == 3
MaxClusterInput == 4

-----------------------------------------------------------------------------
(* Python str helpers *)

\* str.lower() on the characters the model uses
LowerChar(c) ==
    CASE c = "A" -> "a"
      [] c = "B" -> "b"
      [] c = "C" -> "c"
      [] c = "D" -> "d"
      [] c = "L" -> "l"
      [] c = "S" -> "s"
      [] c = "I" -> "i"
      [] c = "R" -> "r"
      [] c = "T" -> "t"
      [] c = "U" -> "u"
      [] OTHER -> c

Lower(s) == [i \in 1..Len(s) |-> LowerChar(s[i])]

IsSpace(c) == c = " "

RECURSIVE LStripSpace(_)
LStripSpace(s) ==
    IF s # <<>> /\ IsSpace(Head(s)) THEN LStripSpace(Tail(s)) ELSE s

RECURSIVE RStripSpace(_)
RStripSpace(s) ==
    IF s # <<>> /\ IsSpace(s[Len(s)])
    THEN RStripSpace(SubSeq(s, 1, Len(s) - 1))
    ELSE s

\* str.strip()
Strip(s) == RStripSpace(LStripSpace(s))

\* str.replace("\\", "/")
ReplaceBackslash(s) == [i \in 1..Len(s) |-> IF s[i] = "\\" THEN "/" ELSE s[i]]

\* str.lstrip(chars): removes every leading character that is in chars
RECURSIVE LStripChars(_, _)
LStripChars(s, chars) ==
    IF s # <<>> /\ Head(s) \in chars THEN LStripChars(Tail(s), chars) ELSE s

\* review.py:414  _normalize_path
_normalize_path(path) ==
    IF path = <<>> THEN <<>>
    ELSE LStripChars(ReplaceBackslash(Strip(path)), {".", "/"})

-----------------------------------------------------------------------------
(* difflib.SequenceMatcher(None, a, b).ratio(), no junk, len < 200 *)

\* length of the common run of a[i+1..] and b[j+1..] inside [.., ahi) x [.., bhi)
RECURSIVE RunLen(_, _, _, _, _, _)
RunLen(a, b, i, j, ahi, bhi) ==
    IF i < ahi /\ j < bhi /\ a[i + 1] = b[j + 1]
    THEN 1 + RunLen(a, b, i + 1, j + 1, ahi, bhi)
    ELSE 0

\* find_longest_match: the longest block, earliest in a, then earliest in b
FindLongestMatch(a, b, alo, ahi, blo, bhi) ==
    LET cand == {<<i, j>> \in (alo..(ahi - 1)) \X (blo..(bhi - 1)) : TRUE}
        best == IF cand = {} THEN 0
                ELSE CHOOSE k \in 0..(ahi - alo) :
                        /\ \E p \in cand : RunLen(a, b, p[1], p[2], ahi, bhi) = k
                        /\ \A p \in cand : RunLen(a, b, p[1], p[2], ahi, bhi) <= k
    IN  IF best = 0 THEN <<alo, blo, 0>>
        ELSE LET hits == {p \in cand : RunLen(a, b, p[1], p[2], ahi, bhi) = best}
                 bi == CHOOSE i \in alo..(ahi - 1) :
                          /\ \E p \in hits : p[1] = i
                          /\ \A p \in hits : p[1] >= i
                 bj == CHOOSE j \in blo..(bhi - 1) :
                          /\ <<bi, j>> \in hits
                          /\ \A p \in hits : p[1] = bi => p[2] >= j
             IN <<bi, bj, best>>

\* get_matching_blocks: total size of the blocks found by recursing on both
\* sides of the longest match
RECURSIVE MatchCount(_, _, _, _, _, _)
MatchCount(a, b, alo, ahi, blo, bhi) ==
    LET m == FindLongestMatch(a, b, alo, ahi, blo, bhi)
        i == m[1]
        j == m[2]
        k == m[3]
    IN  IF k = 0 THEN 0
        ELSE k
             + (IF alo < i /\ blo < j THEN MatchCount(a, b, alo, i, blo, j) ELSE 0)
             + (IF i + k < ahi /\ j + k < bhi
                THEN MatchCount(a, b, i + k, ahi, j + k, bhi) ELSE 0)

\* ratio() as the fraction 2*M / T; 1.0 when both strings are empty
Ratio(a, b) ==
    IF Len(a) + Len(b) = 0 THEN [num |-> 1, den |-> 1]
    ELSE [num |-> 2 * MatchCount(a, b, 0, Len(a), 0, Len(b)),
          den |-> Len(a) + Len(b)]

\* review.py:432  _raw_text_similarity
_raw_text_similarity(text1, text2) ==
    IF text1 = <<>> /\ text2 = <<>> THEN [num |-> 1, den |-> 1]
    ELSE IF text1 = <<>> \/ text2 = <<>> THEN [num |-> 0, den |-> 1]
    ELSE Ratio(Lower(text1), Lower(text2))

\* aggregator.py:176  ReviewAggregator._text_similarity
_text_similarity(text1, text2) == Ratio(Lower(text1), Lower(text2))

\* review.py:411 and aggregator.py:24, in hundredths
SIMILARITY_THRESHOLD == 85

\* (title_sim * 0.6) + (desc_sim * 0.4) >= threshold, on exact fractions
CombinedAtLeast(ts, ds, threshold) ==
    60 * ts.num * ds.den + 40 * ds.num * ts.den >= threshold * ts.den * ds.den

-----------------------------------------------------------------------------
(* models/findings.py: enums and ReviewFinding *)

\* list(Severity), in definition order
SeverityList == <<"critical", "warning", "suggestion", "nitpick">>

Severities == {SeverityList[i] : i \in 1..Len(SeverityList)}

\* list(Severity).index(sev), 0-based as in Python
SeverityIndex(sev) == (CHOOSE i \in 1..Len(SeverityList) : SeverityList[i] = sev) - 1

Categories ==
    {"security", "performance", "logic", "style", "architecture", "testing",
     "documentation"}

S_critical == <<"c", "r", "i", "t", "i", "c", "a", "l">>
S_warning == <<"w", "a", "r", "n", "i", "n", "g">>
S_suggestion == <<"s", "u", "g", "g", "e", "s", "t", "i", "o", "n">>
S_nitpick == <<"n", "i", "t", "p", "i", "c", "k">>
S_security == <<"s", "e", "c", "u", "r", "i", "t", "y">>
S_performance == <<"p", "e", "r", "f", "o", "r", "m", "a", "n", "c", "e">>
S_logic == <<"l", "o", "g", "i", "c">>
S_Logic == <<"L", "o", "g", "i", "c">>
S_style == <<"s", "t", "y", "l", "e">>
S_architecture == <<"a", "r", "c", "h", "i", "t", "e", "c", "t", "u", "r", "e">>
S_testing == <<"t", "e", "s", "t", "i", "n", "g">>
S_documentation == <<"d", "o", "c", "u", "m", "e", "n", "t", "a", "t", "i", "o", "n">>

ValueError == "ValueError"

\* Severity(value): the member whose value is the given text, else ValueError
SeverityOf(text) ==
    CASE text = S_critical -> "critical"
      [] text = S_warning -> "warning"
      [] text = S_suggestion -> "suggestion"
      [] text = S_nitpick -> "nitpick"
      [] OTHER -> ValueError

\* Category(value): the member whose value is the given text, else ValueError
CategoryOf(text) ==
    CASE text = S_security -> "security"
      [] text = S_performance -> "performance"
      [] text = S_logic -> "logic"
      [] text = S_style -> "style"
      [] text = S_architecture -> "architecture"
      [] text = S_testing -> "testing"
      [] text = S_documentation -> "documentation"
      [] OTHER -> ValueError

\* Python truthiness of an optional int (None and 0 are falsy)
TruthyInt(x) == x # None /\ x[1] # 0

\* the int held by an optional int that is present
IntOf(x) == x[1]

\* ReviewFinding.__post_init__: the construction is accepted
ReviewFindingValid(f) ==
    /\ f.confidence >= 0 /\ f.confidence <= 100
    /\ f.line_start >= 1
    /\ (f.line_end # None => IntOf(f.line_end) >= f.line_start)

\* base.py:157-167: the ReviewFinding built from one raw finding that has
\* every key (the constructor arguments before validation)
ToReviewFinding(raw) ==
    [file_path |-> raw.file_path,
     line_start |-> raw.line_start,
     line_end |-> IF TruthyInt(raw.line_end) THEN raw.line_end ELSE None,
     severity |-> SeverityOf(Lower(raw.severity)),
     category |-> CategoryOf(Lower(raw.category)),
     title |-> raw.title,
     description |-> raw.description,
     confidence |-> raw.confidence]

\* base.py:169: the finding is kept (no KeyError / ValueError was raised)
ParsesAsReviewFinding(raw) ==
    LET f == ToReviewFinding(raw)
    IN  /\ f.severity # ValueError
        /\ f.category # ValueError
        /\ ReviewFindingValid(f)

\* base.py:150  ReviewAgent._parse_findings
RECURSIVE _parse_findings(_)
_parse_findings(raws) ==
    IF raws = <<>> THEN <<>>
    ELSE (IF ParsesAsReviewFinding(Head(raws))
          THEN <<ToReviewFinding(Head(raws))>> ELSE <<>>)
         \o _parse_findings(Tail(raws))

-----------------------------------------------------------------------------
(* The similarity predicates *)

LINE_TOLERANCE == 5

\* review.py:421  _raw_lines_overlap
_raw_lines_overlap(raw1, raw2) ==
    LET start1 == raw1.line_start
        end1 == IF TruthyInt(raw1.line_end) THEN IntOf(raw1.line_end) ELSE start1
        start2 == raw2.line_start
        end2 == IF TruthyInt(raw2.line_end) THEN IntOf(raw2.line_end) ELSE start2
    IN  ~(end1 + LINE_TOLERANCE < start2 \/ end2 + LINE_TOLERANCE < start1)

\* Python `text or default` for an optional string
OrDefault(text, default) == IF text = None \/ text = <<>> THEN default ELSE text

\* review.py:441  _raw_findings_similar
_raw_findings_similar(raw1, raw2, threshold) ==
    LET path1 == _normalize_path(raw1.file_path)
        path2 == _normalize_path(raw2.file_path)
        cat1 == Strip(Lower(OrDefault(raw1.category, S_logic)))
        cat2 == Strip(Lower(OrDefault(raw2.category, S_logic)))
        title1 == Strip(OrDefault(raw1.title, <<>>))
        title2 == Strip(OrDefault(raw2.title, <<>>))
        desc1 == Strip(OrDefault(raw1.description, <<>>))
        desc2 == Strip(OrDefault(raw2.description, <<>>))
    IN  IF path1 # path2 THEN FALSE
        ELSE IF cat1 # cat2 THEN FALSE
        ELSE IF ~_raw_lines_overlap(raw1, raw2) THEN FALSE
        ELSE CombinedAtLeast(_raw_text_similarity(title1, title2),
                             _raw_text_similarity(desc1, desc2), threshold)

\* aggregator.py:166  ReviewAggregator._lines_overlap
_lines_overlap(f1, f2) ==
    LET start1 == f1.line_start
        end1 == IF TruthyInt(f1.line_end) THEN IntOf(f1.line_end) ELSE f1.line_start
        start2 == f2.line_start
        end2 == IF TruthyInt(f2.line_end) THEN IntOf(f2.line_end) ELSE f2.line_start
    IN  ~(end1 + LINE_TOLERANCE < start2 \/ end2 + LINE_TOLERANCE < start1)

\* aggregator.py:144  ReviewAggregator._are_similar
_are_similar(f1, f2) ==
    IF f1.file_path # f2.file_path THEN FALSE
    ELSE IF f1.category # f2.category THEN FALSE
    ELSE IF ~_lines_overlap(f1, f2) THEN FALSE
    ELSE CombinedAtLeast(_text_similarity(f1.title, f2.title),
                         _text_similarity(f1.description, f2.description),
                         SIMILARITY_THRESHOLD)

-----------------------------------------------------------------------------
(* The cluster builders *)

\* the clusters of (agent, finding) pairs whose indices into tg idx holds
MembersAt(tg, idx) ==
    [c \in 1..Len(idx) |-> [k \in 1..Len(idx[c]) |-> tg[idx[c][k]]]]

\* review.py:481-486: the inner loop from index j on; the indices that join
\* the cluster seeded by i
RECURSIVE RawJoined(_, _, _, _, _)
RawJoined(tg, i, j, used, threshold) ==
    IF j > Len(tg) THEN <<>>
    ELSE (IF /\ j \notin (used \cup {i})
             /\ _raw_findings_similar(tg[i].finding, tg[j].finding, threshold)
          THEN <<j>> ELSE <<>>)
         \o RawJoined(tg, i, j + 1, used, threshold)

\* ClusterRawFrom without used.add(j): a joined finding stays available
RECURSIVE ClusterRawFromNoMark(_, _, _, _, _)
ClusterRawFromNoMark(tg, i, used, clusters, threshold) ==
    IF i > Len(tg) THEN clusters
    ELSE IF i \in used THEN ClusterRawFromNoMark(tg, i + 1, used, clusters, threshold)
    ELSE ClusterRawFromNoMark(tg, i + 1, used \cup {i},
             Append(clusters, <<i>> \o RawJoined(tg, i, 1, used, threshold)),
             threshold)

\* review.py:476-487: the outer loop from index i on; used and clusters hold
\* indices into tagged
RECURSIVE ClusterRawFrom(_, _, _, _, _)
\* review.py:487: clusters.append(cluster), every member being in used by now
ClusterRawAppend(tg, i, used, clusters, threshold, cluster) ==
    ClusterRawFrom(tg, i + 1, used \cup {cluster[k] : k \in 1..Len(cluster)},
                   Append(clusters, cluster), threshold)

ClusterRawFrom(tg, i, used, clusters, threshold) ==
    IF i > Len(tg) THEN clusters
    ELSE IF i \in used THEN ClusterRawFrom(tg, i + 1, used, clusters, threshold)
    ELSE ClusterRawAppend(tg, i, used, clusters, threshold,
                          <<i>> \o RawJoined(tg, i, 1, used, threshold))

\* review.py:466  _cluster_raw_findings
_cluster_raw_findings(tg, threshold) ==
    MembersAt(tg, ClusterRawFrom(tg, 1, {}, <<>>, threshold))

\* aggregator.py:132-138: the inner loop from index j on
RECURSIVE Joined(_, _, _, _)
Joined(tg, i, j, used) ==
    IF j > Len(tg) THEN <<>>
    ELSE (IF /\ j \notin (used \cup {i})
             /\ _are_similar(tg[i].finding, tg[j].finding)
          THEN <<j>> ELSE <<>>)
         \o Joined(tg, i, j + 1, used)

\* aggregator.py:123-140: the outer loop from index i on
RECURSIVE ClusterFrom(_, _, _, _)
\* aggregator.py:140: clusters.append(cluster), every member being in used
ClusterAppend(tg, i, used, clusters, cluster) ==
    ClusterFrom(tg, i + 1, used \cup {cluster[k] : k \in 1..Len(cluster)},
                Append(clusters, cluster))

ClusterFrom(tg, i, used, clusters) ==
    IF i > Len(tg) THEN clusters
    ELSE IF i \in used THEN ClusterFrom(tg, i + 1, used, clusters)
    ELSE ClusterAppend(tg, i, used, clusters, <<i>> \o Joined(tg, i, 1, used))

\* aggregator.py:113  ReviewAggregator._cluster_findings
_cluster_findings(tg) == MembersAt(tg, ClusterFrom(tg, 1, {}, <<>>))

-----------------------------------------------------------------------------
(* Consolidated findings: models/findings.py ConsolidatedFinding.            *)
(* id, description and suggested_fix are not modelled.  cluster records the  *)
(* (agent, finding) members the finding was merged from.                      *)

\* findings.py:85-90  severity_weights, in tenths
SeverityWeight(sev) ==
    CASE sev = "critical" -> 10
      [] sev = "warning" -> 6
      [] sev = "suggestion" -> 3
      [] sev = "nitpick" -> 1

\* findings.py:82  ConsolidatedFinding.priority_score, as a fraction
priority_score(f) ==
    [num |-> SeverityWeight(f.severity) * f.consensus_score.num * f.confidence.num,
     den |-> 10 * f.consensus_score.den * f.confidence.den]

\* a >= b on fractions with positive denominators
FracGeq(a, b) == a.num * b.den >= b.num * a.den

\* SortByPriority with the sort call left out
Unsorted(fs) == fs

\* the number of elements of sorted whose key is >= the key of x
KeptBefore(sorted, x) ==
    Cardinality({k \in 1..Len(sorted) :
                    FracGeq(priority_score(sorted[k]), priority_score(x))})

\* x put into sorted after the first keep elements
InsertAt(sorted, x, keep) ==
    SubSeq(sorted, 1, keep) \o <<x>> \o SubSeq(sorted, keep + 1, Len(sorted))

\* x put into the descending sequence sorted, after every element whose key
\* is >= its key
InsertByPriority(sorted, x) == InsertAt(sorted, x, KeptBefore(sorted, x))

\* list.sort(key=lambda f: f.priority_score, reverse=True): stable, descending
RECURSIVE SortByPriority(_)
SortByPriority(fs) ==
    IF fs = <<>> THEN <<>>
    ELSE InsertByPriority(SortByPriority(SubSeq(fs, 1, Len(fs) - 1)), fs[Len(fs)])

RECURSIVE SumConfidence(_)
SumConfidence(fs) ==
    IF fs = <<>> THEN 0 ELSE Head(fs).confidence + SumConfidence(Tail(fs))

\* FirstMaxIndex with ties going to the last element
LastMaxIndex(keys) ==
    CHOOSE i \in 1..Len(keys) :
        /\ \A j \in 1..Len(keys) : keys[j] <= keys[i]
        /\ \A j \in (i + 1)..Len(keys) : keys[j] < keys[i]

\* max(findings, key=...): the first element with the largest key
FirstMaxIndex(keys) ==
    CHOOSE i \in 1..Len(keys) :
        /\ \A j \in 1..Len(keys) : keys[j] <= keys[i]
        /\ \A j \in 1..(i - 1) : keys[j] < keys[i]

\* list(dict.fromkeys(xs)): first occurrences, in order
AppendIfNew(front, x) ==
    IF \E k \in 1..Len(front) : front[k] = x THEN front ELSE Append(front, x)

RECURSIVE DictFromKeys(_)
DictFromKeys(xs) ==
    IF xs = <<>> THEN <<>>
    ELSE AppendIfNew(DictFromKeys(SubSeq(xs, 1, Len(xs) - 1)), xs[Len(xs)])

\* aggregator.py:180  ReviewAggregator._merge_cluster
_merge_cluster(cluster, total_agents) ==
    LET agents == [k \in 1..Len(cluster) |-> cluster[k].agent]
        findings == [k \in 1..Len(cluster) |-> cluster[k].finding]
        base_finding ==
            findings[FirstMaxIndex([k \in 1..Len(findings) |-> findings[k].confidence])]
        severity ==
            findings[FirstMaxIndex([k \in 1..Len(findings) |->
                                       SeverityIndex(findings[k].severity)])].severity
    IN  [file_path |-> base_finding.file_path,
         line_start |-> base_finding.line_start,
         line_end |-> base_finding.line_end,
         severity |-> severity,
         category |-> base_finding.category,
         title |-> base_finding.title,
         consensus_score |-> [num |-> Len(cluster), den |-> total_agents],
         agreeing_agents |-> agents,
         confidence |-> [num |-> SumConfidence(findings), den |-> 100 * Len(findings)],
         cluster |-> cluster]

\* aggregator.py:103  ReviewAggregator._extract_tagged_findings
RECURSIVE _extract_tagged_findings(_)
_extract_tagged_findings(revs) ==
    IF revs = <<>> THEN <<>>
    ELSE [k \in 1..Len(Head(revs).findings) |->
              [agent |-> Head(revs).agent_id, finding |-> Head(revs).findings[k]]]
         \o _extract_tagged_findings(Tail(revs))

\* aggregator.py:76: every cluster merged into one ConsolidatedFinding
MergeClusters(clusters, total_agents) ==
    [c \in 1..Len(clusters) |-> _merge_cluster(clusters[c], total_agents)]

Min(a, b) == IF a <= b THEN a ELSE b

\* a review_quality_score: cents hundredths, or the float just below that
\* many hundredths when below holds
Score(cents) == [cents |-> cents, below |-> FALSE]

\* round(num / den, 2) for num / den >= 0, in hundredths: fl hundredths and
\* a remainder of rem / den hundredths, rounded to nearest, ties to even
RoundFrom(fl, rem, den) ==
    IF 2 * rem > den THEN fl + 1
    ELSE IF 2 * rem < den THEN fl
    ELSE IF fl % 2 = 0 THEN fl ELSE fl + 1

Round2(num, den) == RoundFrom((100 * num) \div den, (100 * num) % den, den)

\* min(0.95, 0.7 + n * 0.1) in IEEE doubles: 0.7, 0.7999999999999999,
\* 0.8999999999999999, then 0.95
CleanScore(n) ==
    CASE n = 0 -> Score(70)
      [] n = 1 -> [cents |-> 80, below |-> TRUE]
      [] n = 2 -> [cents |-> 90, below |-> TRUE]
      [] OTHER -> Score(95)

\* sum(f.consensus_score for f in findings), as a numerator over the common
\* denominator of the scores
RECURSIVE SumConsensus(_)
SumConsensus(findings) ==
    IF findings = <<>> THEN 0
    ELSE Head(findings).consensus_score.num + SumConsensus(Tail(findings))

\* round(avg_consensus * min(1.0, total_agents / 3), 2)
ConsensusScore(findings, total_agents) ==
    Score(Round2(SumConsensus(findings) * Min(total_agents, 3),
                 findings[1].consensus_score.den * Len(findings) * 3))

\* aggregator.py:264  ReviewAggregator._compute_quality_score
_compute_quality_score(revs, findings) ==
    IF revs = <<>> THEN Score(0)
    ELSE IF findings = <<>> THEN CleanScore(Len(revs))
    ELSE ConsensusScore(findings, Len(revs))

\* aggregator.py:283  ReviewAggregator._empty_review
_empty_review ==
    [status |-> "done", fn |-> "aggregate", findings |-> <<>>,
     agent_count |-> 0, failed_agents |-> <<>>,
     review_quality_score |-> Score(0)]

\* aggregator.py:297  ReviewAggregator._clean_review
_clean_review(revs) ==
    [status |-> "done", fn |-> "aggregate", findings |-> <<>>,
     agent_count |-> Len(revs), failed_agents |-> <<>>,
     review_quality_score |-> CleanScore(Len(revs))]

\* aggregator.py:90-101: the ConsolidatedReview built from the sorted findings
AggregateReview(revs, consolidated_findings) ==
    [status |-> "done", fn |-> "aggregate", findings |-> consolidated_findings,
     agent_count |-> Len(revs), failed_agents |-> <<>>,
     review_quality_score |-> _compute_quality_score(revs, consolidated_findings)]

\* aggregator.py:40  ReviewAggregator.aggregate
aggregate(revs) ==
    IF revs = <<>> THEN _empty_review
    ELSE IF _extract_tagged_findings(revs) = <<>> THEN _clean_review(revs)
    ELSE AggregateReview(revs,
             SortByPriority(MergeClusters(
                 _cluster_findings(_extract_tagged_findings(revs)), Len(revs))))

\* review.py:508: the agent's summary carries a failure marker
SUMMARY_OK == "Review completed"
SUMMARY_AGENT_FAILED == "Agent failed: e"

\* a summary an agent wrote itself, in which "401 Unauthorized" occurs
SUMMARY_MENTIONS_401 == "Requests without a token now get 401 Unauthorized"

\* review.py:508: "Agent failed:" in summary or "401 Unauthorized" in summary
HasFailureMarker(summary) ==
    summary \in {SUMMARY_AGENT_FAILED, SUMMARY_MENTIONS_401}

\* review.py:506-509: the names of the agents whose summary carries a marker
RECURSIVE FailedAgents(_)
FailedAgents(af) ==
    IF af = <<>> THEN <<>>
    ELSE (IF HasFailureMarker(Head(af).summary) THEN <<Head(af).agent_name>> ELSE <<>>)
         \o FailedAgents(Tail(af))

\* review.py:504-512: flatten to (agent_name, raw)
RECURSIVE FlattenTagged(_)
FlattenTagged(af) ==
    IF af = <<>> THEN <<>>
    ELSE [k \in 1..Len(Head(af).findings) |->
              [agent |-> Head(af).agent_name, finding |-> Head(af).findings[k]]]
         \o FlattenTagged(Tail(af))

\* review.py:524-532: Severity(raw["severity"].lower()), suggestion on ValueError
SeverityOrSuggestion(text) ==
    IF SeverityOf(Lower(text)) = ValueError THEN "suggestion" ELSE SeverityOf(Lower(text))

CategoryOrLogic(text) ==
    IF CategoryOf(Lower(text)) = ValueError THEN "logic" ELSE CategoryOf(Lower(text))

\* review.py:518-552: one cluster to one ConsolidatedFinding
ConsolidateRawCluster(cluster, total_agents) ==
    LET raw == cluster[1].finding
        agreeing_agents == DictFromKeys([k \in 1..Len(cluster) |-> cluster[k].agent])
    IN  [file_path |-> raw.file_path,
         line_start |-> raw.line_start,
         line_end |-> raw.line_end,
         severity |-> SeverityOrSuggestion(raw.severity),
         category |-> CategoryOrLogic(raw.category),
         title |-> raw.title,
         consensus_score |->
             IF total_agents > 0
             THEN [num |-> Len(agreeing_agents), den |-> total_agents]
             ELSE [num |-> 1, den |-> 1],
         agreeing_agents |-> agreeing_agents,
         confidence |-> [num |-> raw.confidence, den |-> 100],
         cluster |-> cluster]

\* review.py:517-552: every cluster processed in turn
ConsolidateRawClusters(finding_clusters, total_agents) ==
    [c \in 1..Len(finding_clusters) |->
        ConsolidateRawCluster(finding_clusters[c], total_agents)]

\* review.py:561-569: quality score from consensus and agent count
FindingsQualityScore(total_agents, consolidated) ==
    IF consolidated = <<>> THEN CleanScore(total_agents)
    ELSE ConsensusScore(consolidated, total_agents)

\* review.py:571-582: the ConsolidatedReview built from the sorted findings
FindingsReview(af, consolidated) ==
    [status |-> "done", fn |-> "aggregate_findings", findings |-> consolidated,
     agent_count |-> Len(af),
     failed_agents |-> FailedAgents(af),
     review_quality_score |-> FindingsQualityScore(Len(af), consolidated)]

\* review.py:492  aggregate_findings
aggregate_findings(af) ==
    FindingsReview(af,
        SortByPriority(ConsolidateRawClusters(
            _cluster_raw_findings(FlattenTagged(af), SIMILARITY_THRESHOLD), Len(af))))

-----------------------------------------------------------------------------
(* The two agent runners *)

\* orchestrator.py:26  OrchestratorConfig.min_agents_required
MIN_AGENTS_REQUIRED == 2

\* review.py:38  len(AGENT_CONFIGS)
NUM_AGENT_CONFIGS == 3

\* base.py:44  ReviewAgent.review, for a run whose LLM call returned
AgentReview(run) ==
    [agent_id |-> run.agent_id,
     findings |-> _parse_findings(run.findings),
     summary |-> run.summary]

\* orchestrator.py:99-107: the reason recorded for a task that did not return
\* an AgentReview
FailureReason(run) == IF run.status = "timeout" THEN "timeout" ELSE "RuntimeError"

\* orchestrator.py:93-107: the tasks that returned an AgentReview (returned =
\* TRUE) or did not (returned = FALSE), in agent order
RECURSIVE RunsReturned(_, _)
RunsReturned(runs, returned) ==
    IF runs = <<>> THEN <<>>
    ELSE (IF (Head(runs).status = "ok") = returned THEN <<Head(runs)>> ELSE <<>>)
         \o RunsReturned(Tail(runs), returned)

\* orchestrator.py:56  AgentOrchestrator.review, after gather() has settled
\* every task
OrchestratorReview(runs) ==
    LET ok == RunsReturned(runs, TRUE)
        bad == RunsReturned(runs, FALSE)
        successful_reviews == [k \in 1..Len(ok) |-> AgentReview(ok[k])]
        failed_agents ==
            [k \in 1..Len(bad) |->
                [agent_id |-> bad[k].agent_id, reason |-> FailureReason(bad[k])]]
    IN  IF Len(successful_reviews) < MIN_AGENTS_REQUIRED
        THEN [status |-> "raised", error |-> "InsufficientAgentsError",
              failed |-> failed_agents]
        ELSE [status |-> "returned", value |-> successful_reviews]

\* review.py:387  run_single_agent
run_single_agent(run) ==
    IF run.status = "ok"
    THEN [agent_name |-> run.agent_id, findings |-> run.findings,
          summary |-> run.summary]
    ELSE [agent_name |-> run.agent_id, findings |-> <<>>,
          summary |-> SUMMARY_AGENT_FAILED]

\* review.py:694-746: the agents run by review_pr_with_cursor_agent for
\* num_agents = Len(runs); the single-agent branch has no try/except
CursorRunAgents(runs) ==
    LET agents_to_run == SubSeq(runs, 1, Min(Len(runs), NUM_AGENT_CONFIGS))
    IN  IF Len(runs) = 1
        THEN IF runs[1].status = "ok"
             THEN [status |-> "returned", value |-> <<run_single_agent(runs[1])>>,
                   launched |-> 1]
             ELSE [status |-> "raised", error |-> FailureReason(runs[1]),
                   launched |-> 1]
        ELSE [status |-> "returned",
              value |-> [k \in 1..Len(agents_to_run) |-> run_single_agent(agents_to_run[k])],
              launched |-> Len(agents_to_run)]

-----------------------------------------------------------------------------
(* Inputs of the similarity specifications *)

T_abcd == <<"a", "b", "c", "d">>
T_ABCD == <<"A", "B", "C", "D">>
T_abce == <<"a", "b", "c", "e">>
T_ab == <<"a", "b">>
T_ac == <<"a", "c">>

P_a == <<"a">>
P_b == <<"b">>

SimPaths == {P_a, <<".", "/", "a">>, <<"/", "a">>, P_b}
SimCategories == {S_logic, S_Logic, S_style}
SimLines == {<<1, None>>, <<1, <<2>>>>, <<7, None>>}
SimTitles == {T_abcd, T_ABCD, T_abce, T_ab}
SimDescriptions == {T_ab, T_ac}

RawFinding(path, cat, line, title, desc, sev, conf) ==
    [file_path |-> path, line_start |-> line[1], line_end |-> line[2],
     severity |-> sev, category |-> cat, title |-> title,
     description |-> desc, confidence |-> conf]

SimFindings ==
    {RawFinding(p, c, l, t, d, S_warning, 80) :
        p \in SimPaths, c \in SimCategories, l \in SimLines,
        t \in SimTitles, d \in SimDescriptions}

PathChars == {".", "/", "\\", " ", "a"}

RECURSIVE SeqsUpTo(_, _)
SeqsUpTo(S, n) ==
    IF n = 0 THEN {<<>>}
    ELSE LET shorter == SeqsUpTo(S, n - 1)
         IN  shorter \cup {Append(s, x) : s \in shorter, x \in S}

PathFindings ==
    {RawFinding(p, S_logic, <<1, None>>, T_ab, T_ab, S_warning, 80) :
        p \in SeqsUpTo(PathChars, MaxPathLen)}

NotCalled == [fn |-> "none", value |-> FALSE]

NoClusters == [fn |-> "none", value |-> <<>>, idx |-> <<>>]

NoFinding == [file_path |-> None]

NotRun == [status |-> "none"]

SimIdle ==
    /\ rawA = NoFinding
    /\ rawB = NoFinding
    /\ simOut = NotCalled

ClusterIdle ==
    /\ tagged = <<>>
    /\ clusterOut = NoClusters

PipelineIdle ==
    /\ agentRuns = <<>>
    /\ reviews = NotRun
    /\ all_findings = NotRun
    /\ result = NotRun

ParseIdle ==
    /\ agentOutputs = <<>>
    /\ parsed = NotRun
    /\ jsonReview = NotRun

OrchIdle ==
    /\ orchConfig = NotRun
    /\ orchPc = "idle"
    /\ tasks = <<>>
    /\ settled = <<>>
    /\ remaining_agents = <<>>
    /\ attempts = 0
    /\ all_reviews = <<>>
    /\ orchFailed = <<>>
    /\ invoked = <<>>
    /\ orchResult = NotRun

CrossIdle ==
    /\ crossIn = NotRun
    /\ crossOut = NotRun

DeltaIdle ==
    /\ deltaIn = NotRun
    /\ deltaOut = NotRun
    /\ patchIn = NotRun
    /\ patchOut = NotRun

FlowIdle ==
    /\ flowEnv = NotRun
    /\ prComments = <<>>
    /\ prReviews = 0
    /\ handlers = <<>>

\* every group of variables but the named one has its idle value
IdleBut(group) ==
    /\ IF group = "sim" THEN TRUE ELSE SimIdle
    /\ IF group = "cluster" THEN TRUE ELSE ClusterIdle
    /\ IF group = "pipe" THEN TRUE ELSE PipelineIdle
    /\ IF group = "parse" THEN TRUE ELSE ParseIdle
    /\ IF group = "orch" THEN TRUE ELSE OrchIdle
    /\ IF group = "cross" THEN TRUE ELSE CrossIdle
    /\ IF group = "delta" THEN TRUE ELSE DeltaIdle
    /\ IF group = "flow" THEN TRUE ELSE FlowIdle

InitSim ==
    /\ rawA \in SimFindings
    /\ rawB \in SimFindings
    /\ simOut = NotCalled
    /\ IdleBut("sim")

InitPath ==
    /\ rawA \in PathFindings
    /\ rawB \in PathFindings
    /\ simOut = NotCalled
    /\ IdleBut("sim")

\* review.py:441: _raw_findings_similar(rawA, rawB) is called
RawFindingsSimilar ==
    /\ simOut = NotCalled
    /\ simOut' = [fn |-> "_raw_findings_similar",
                  value |-> _raw_findings_similar(rawA, rawB, SIMILARITY_THRESHOLD)]
    /\ UNCHANGED <<rawA, rawB, notSim>>

\* aggregator.py:144: _are_similar is called on the two ReviewFindings that
\* _parse_findings built from rawA and rawB
AreSimilar ==
    /\ simOut = NotCalled
    /\ ParsesAsReviewFinding(rawA)
    /\ ParsesAsReviewFinding(rawB)
    /\ simOut' = [fn |-> "_are_similar",
                  value |-> _are_similar(ToReviewFinding(rawA), ToReviewFinding(rawB))]
    /\ UNCHANGED <<rawA, rawB, notSim>>

NextSim == RawFindingsSimilar \/ AreSimilar

SpecSim == InitSim /\ [][NextSim]_vars

SpecPath == InitPath /\ [][NextSim]_vars

-----------------------------------------------------------------------------
(* Cluster builder specification *)

ClusterLines == {1, 6, 11}

ClusterFindings ==
    {RawFinding(P_a, S_logic, <<l, None>>, T_ab, T_ab, S_warning, 80) :
        l \in ClusterLines}

TaggedDomain == {[agent |-> a, finding |-> f] : a \in 1..2, f \in ClusterFindings}

InitCluster ==
    /\ tagged \in SeqsUpTo(TaggedDomain, MaxClusterInput)
    /\ clusterOut = NoClusters
    /\ IdleBut("cluster")

\* review.py:466: _cluster_raw_findings(tagged) is called
ClusterRawFindings ==
    /\ clusterOut = NoClusters
    /\ clusterOut' = [fn |-> "_cluster_raw_findings",
                      value |-> _cluster_raw_findings(tagged, SIMILARITY_THRESHOLD),
                      idx |-> ClusterRawFrom(tagged, 1, {}, <<>>, SIMILARITY_THRESHOLD)]
    /\ UNCHANGED <<tagged, notCluster>>

\* the tagged ReviewFindings that _parse_findings builds from tagged
TypedTagged(tg) ==
    [k \in 1..Len(tg) |->
        [agent |-> tg[k].agent, finding |-> ToReviewFinding(tg[k].finding)]]

\* aggregator.py:113: _cluster_findings is called on the parsed findings
ClusterTypedFindings ==
    /\ clusterOut = NoClusters
    /\ \A k \in 1..Len(tagged) : ParsesAsReviewFinding(tagged[k].finding)
    /\ clusterOut' = [fn |-> "_cluster_findings",
                      value |-> _cluster_findings(TypedTagged(tagged)),
                      idx |-> ClusterFrom(TypedTagged(tagged), 1, {}, <<>>)]
    /\ UNCHANGED <<tagged, notCluster>>

NextCluster == ClusterRawFindings \/ ClusterTypedFindings

SpecCluster == InitCluster /\ [][NextCluster]_vars

-----------------------------------------------------------------------------
(* Pipeline specifications *)

RunStatuses == {"ok", "timeout", "error"}

\* own assigns each finding to an agent, in agent order
Monotone(own, m) == \A k \in 1..(m - 1) : own[k] <= own[k + 1]

\* the findings of all that own assigns to agent a, in order
RunFindings(all, own, m, a) ==
    SubSeq(all, 1 + Cardinality({k \in 1..m : own[k] < a}),
                Cardinality({k \in 1..m : own[k] <= a}))

\* the runs of agents 1..n: agent a ended with status st[a] and, when it
\* returned, reported its share of the m findings of all
RunsFrom(n, m, all, own, st) ==
    [a \in 1..n |->
        [agent_id |-> a, status |-> st[a],
         findings |-> RunFindings(all, own, m, a), summary |-> SUMMARY_OK]]

\* agentRuns is the runs of n agents with at most budget findings from D in
\* total; an agent that timed out or raised reported nothing
RunsAre(D, n, budget, statuses) ==
    \E m \in 0..budget :
        \E own \in [1..m -> 1..n] :
            /\ Monotone(own, m)
            /\ \E st \in [1..n -> statuses] :
                   /\ \A k \in 1..m : st[own[k]] = "ok"
                   /\ \E all \in [1..m -> D] :
                          agentRuns = RunsFrom(n, m, all, own, st)

Confidences == {85, 90}

BasicFindings ==
    {RawFinding(P_a, S_logic, <<l, None>>, T_ab, T_ab, sv, c) :
        l \in {1, 20}, sv \in {S_critical, S_warning}, c \in Confidences}

MergeFindings ==
    {RawFinding(P_a, S_logic, <<l, None>>, T_ab, T_ab, sv, c) :
        l \in {1, 2, 20},
        sv \in {S_critical, S_warning, S_suggestion, S_nitpick},
        c \in Confidences}

Init ==
    /\ \E n \in 0..MaxAgents : RunsAre(BasicFindings, n, MaxFindings, RunStatuses)
    /\ reviews = NotRun
    /\ all_findings = NotRun
    /\ result = NotRun
    /\ IdleBut("pipe")

InitMerge ==
    /\ RunsAre(MergeFindings, 2, MaxMergeFindings, {"ok"})
    /\ reviews = NotRun
    /\ all_findings = NotRun
    /\ result = NotRun
    /\ IdleBut("pipe")

\* orchestrator.py:56: AgentOrchestrator.review() runs every agent and returns
\* or raises
Review ==
    /\ reviews = NotRun
    /\ all_findings = NotRun
    /\ reviews' = OrchestratorReview(agentRuns)
    /\ UNCHANGED <<agentRuns, all_findings, result, notPipe>>

\* aggregator.py:40: ReviewAggregator.aggregate() on what review() returned
Aggregate ==
    /\ reviews.status = "returned"
    /\ result = NotRun
    /\ result' = aggregate(reviews.value)
    /\ UNCHANGED <<agentRuns, reviews, all_findings, notPipe>>

\* review.py:694-746: review_pr_with_cursor_agent runs its agents
RunAgents ==
    /\ reviews = NotRun
    /\ all_findings = NotRun
    /\ all_findings' = CursorRunAgents(agentRuns)
    /\ UNCHANGED <<agentRuns, reviews, result, notPipe>>

\* review.py:749: aggregate_findings() on what the agents returned
AggregateFindings ==
    /\ all_findings.status = "returned"
    /\ result = NotRun
    /\ result' = aggregate_findings(all_findings.value)
    /\ UNCHANGED <<agentRuns, reviews, all_findings, notPipe>>

\* aggregator.py:63: ReviewAggregator.aggregate() is handed an empty list of
\* reviews by a caller that ran no agent
AggregateNoReviews ==
    /\ agentRuns = <<>>
    /\ reviews = NotRun
    /\ all_findings = NotRun
    /\ result = NotRun
    /\ result' = aggregate(<<>>)
    /\ UNCHANGED <<agentRuns, reviews, all_findings, notPipe>>

NextMerge == Review \/ Aggregate \/ RunAgents \/ AggregateFindings

Next == NextMerge \/ AggregateNoReviews

Spec == Init /\ [][Next]_vars

SpecMerge == InitMerge /\ [][NextMerge]_vars

-----------------------------------------------------------------------------
(* Properties *)

Done == result.status = "done"

Members(f) == {f.cluster[k] : k \in 1..Len(f.cluster)}

ClusterAgents(f) == {m.agent : m \in Members(f)}

\* position of the first member of the cluster that agent a contributed
FirstSeen(f, a) == CHOOSE k \in 1..Len(f.cluster) :
    /\ f.cluster[k].agent = a
    /\ \A j \in 1..(k - 1) : f.cluster[j].agent # a

\* C1: every consolidated finding has consensus_score = (distinct agents of its
\* cluster) / (agents run), and agreeing_agents lists each contributing agent
\* exactly once, in first-seen order.
C1_ConsensusCountsUniqueAgents ==
    Done =>
        \A i \in 1..Len(result.findings) :
            LET f == result.findings[i]
                ag == f.agreeing_agents
            IN  /\ f.consensus_score.num * result.agent_count
                     = Cardinality(ClusterAgents(f)) * f.consensus_score.den
                /\ {ag[k] : k \in 1..Len(ag)} = ClusterAgents(f)
                /\ \A j, k \in 1..Len(ag) :
                       j < k => FirstSeen(f, ag[j]) < FirstSeen(f, ag[k])

\* the number of agents the pipeline that ran has launched
Launched ==
    IF result.fn = "aggregate" THEN Len(agentRuns) ELSE all_findings.launched

\* C2: agent_count and the denominator of every consensus_score equal the
\* number of agents launched, whether or not they succeeded or found anything.
C2_DenominatorIsAgentsLaunched ==
    Done =>
        /\ result.agent_count = Launched
        /\ \A i \in 1..Len(result.findings) :
               result.findings[i].consensus_score.den = Launched

\* the normalization the specification describes: trim, backslashes to forward
\* slashes, then remove one leading "./" prefix
StripDotSlashPrefix(p) ==
    IF Len(p) >= 2 /\ p[1] = "." /\ p[2] = "/" THEN SubSeq(p, 3, Len(p)) ELSE p

ThreeStepNormalize(p) == StripDotSlashPrefix(ReplaceBackslash(Strip(p)))

EndOrStart(f) == IF f.line_end = None THEN f.line_start ELSE IntOf(f.line_end)

WithinTolerance(a, b) ==
    ~(EndOrStart(a) + 5 < b.line_start \/ EndOrStart(b) + 5 < a.line_start)

FourConditions(a, b) ==
    /\ ThreeStepNormalize(a.file_path) = ThreeStepNormalize(b.file_path)
    /\ Lower(a.category) = Lower(b.category)
    /\ WithinTolerance(a, b)
    /\ CombinedAtLeast(Ratio(Lower(a.title), Lower(b.title)),
                       Ratio(Lower(a.description), Lower(b.description)), 85)

\* C3: the similarity predicate returns true iff the normalized paths are equal,
\* the categories are equal ignoring case, the line ranges are within the
\* 5-line tolerance and 0.6 x title + 0.4 x description similarity >= threshold.
C3_SimilarIffFourConditions ==
    simOut.fn # "none" => (simOut.value <=> FourConditions(rawA, rawB))

\* C4: two paths normalize to the same string iff they are equal after trim,
\* backslash replacement and removal of a leading "./"; for two findings that
\* differ only in file_path the predicate is true exactly then.
C4_NormalizeOnlyThreeSteps ==
    simOut.fn = "_raw_findings_similar" =>
        /\ (_normalize_path(rawA.file_path) = _normalize_path(rawB.file_path))
               <=> (ThreeStepNormalize(rawA.file_path) = ThreeStepNormalize(rawB.file_path))
        /\ simOut.value
               <=> (ThreeStepNormalize(rawA.file_path) = ThreeStepNormalize(rawB.file_path))

\* the input of the cluster builder that ran, and its similarity predicate on
\* two input positions
ClusterInput ==
    IF clusterOut.fn = "_cluster_findings" THEN TypedTagged(tagged) ELSE tagged

SimilarAt(i, j) ==
    IF clusterOut.fn = "_cluster_findings"
    THEN _are_similar(ClusterInput[i].finding, ClusterInput[j].finding)
    ELSE _raw_findings_similar(ClusterInput[i].finding, ClusterInput[j].finding,
                               SIMILARITY_THRESHOLD)

\* C5: clustering is the greedy seed-based partition: every input position is in
\* exactly one cluster, clusters are ordered by the position of their seed,
\* every non-seed member is similar to its seed and is similar to no earlier
\* seed, and no seed is similar to an earlier seed.
C5_GreedySeedPartition ==
    clusterOut.fn # "none" =>
        LET idx == clusterOut.idx
            out == clusterOut.value
        IN  /\ Len(out) = Len(idx)
            /\ \A c \in 1..Len(idx) :
                   /\ Len(idx[c]) >= 1
                   /\ Len(out[c]) = Len(idx[c])
                   /\ \A k \in 1..Len(idx[c]) : out[c][k] = ClusterInput[idx[c][k]]
            /\ \A p \in 1..Len(tagged) :
                   Cardinality({<<c, k>> \in (1..Len(idx)) \X (1..Len(tagged)) :
                                   k <= Len(idx[c]) /\ idx[c][k] = p}) = 1
            /\ \A c \in 1..(Len(idx) - 1) : idx[c][1] < idx[c + 1][1]
            /\ \A c \in 1..Len(idx) : \A k \in 2..Len(idx[c]) :
                   /\ SimilarAt(idx[c][1], idx[c][k])
                   /\ \A d \in 1..(c - 1) : ~SimilarAt(idx[d][1], idx[c][k])
            /\ \A c \in 1..Len(idx) : \A d \in 1..(c - 1) :
                   ~SimilarAt(idx[d][1], idx[c][1])

\* C5 witness: a finding that is similar to a non-seed member of a cluster but
\* not to its seed sits in another cluster
C5_Witness ==
    /\ clusterOut.fn # "none"
    /\ \E c, d \in 1..Len(clusterOut.idx) :
          /\ c # d
          /\ \E k \in 2..Len(clusterOut.idx[c]) : \E m \in 1..Len(clusterOut.idx[d]) :
                /\ SimilarAt(clusterOut.idx[c][k], clusterOut.idx[d][m])
                /\ ~SimilarAt(clusterOut.idx[c][1], clusterOut.idx[d][m])

\* rank of a severity in the ordering critical > warning > suggestion > nitpick
SeverityRank(sev) ==
    CASE sev = "critical" -> 4
      [] sev = "warning" -> 3
      [] sev = "suggestion" -> 2
      [] sev = "nitpick" -> 1

\* the enum severity of a cluster member (raw text or enum member)
MemberSeverity(m) ==
    IF m.finding.severity \in Severities THEN m.finding.severity
    ELSE SeverityOf(Lower(m.finding.severity))

\* C6: the severity of a consolidated finding is the most severe rating among
\* the members of its cluster.
C6_MostSevereRating ==
    Done =>
        \A i \in 1..Len(result.findings) :
            LET f == result.findings[i]
            IN  /\ \E m \in Members(f) : MemberSeverity(m) = f.severity
                /\ \A m \in Members(f) :
                       SeverityRank(MemberSeverity(m)) <= SeverityRank(f.severity)

RECURSIVE SumMemberConfidence(_)
SumMemberConfidence(cl) ==
    IF cl = <<>> THEN 0 ELSE Head(cl).finding.confidence + SumMemberConfidence(Tail(cl))

\* C7: the confidence of a consolidated finding is the arithmetic mean of the
\* confidences of all members of its cluster.
C7_ConfidenceIsMean ==
    Done =>
        \A i \in 1..Len(result.findings) :
            LET f == result.findings[i]
            IN  f.confidence.num * 100 * Len(f.cluster)
                    = SumMemberConfidence(f.cluster) * f.confidence.den

\* f carries the file path, line range, category and title of member m
BasedOn(f, m) ==
    /\ f.file_path = m.finding.file_path
    /\ f.line_start = m.finding.line_start
    /\ f.line_end = m.finding.line_end
    /\ f.title = m.finding.title
    /\ f.category = (IF m.finding.category \in Categories THEN m.finding.category
                     ELSE CategoryOf(Lower(m.finding.category)))

\* the first member of the cluster with the highest confidence
HighestConfidenceMember(f) ==
    f.cluster[CHOOSE k \in 1..Len(f.cluster) :
        /\ \A j \in 1..Len(f.cluster) :
               f.cluster[j].finding.confidence <= f.cluster[k].finding.confidence
        /\ \A j \in 1..(k - 1) :
               f.cluster[j].finding.confidence < f.cluster[k].finding.confidence]

\* C8 as stated: in both aggregations the base is the member with the highest
\* confidence, the first such member on a tie.
C8_BaseIsHighestConfidence ==
    Done =>
        \A i \in 1..Len(result.findings) :
            BasedOn(result.findings[i], HighestConfidenceMember(result.findings[i]))

\* C8 amended: ReviewAggregator.aggregate bases a consolidated finding on the
\* member with the highest confidence (first on a tie); aggregate_findings
\* bases it on the first member of the cluster.
C8_BasePerAggregator ==
    Done =>
        \A i \in 1..Len(result.findings) :
            LET f == result.findings[i]
            IN  IF result.fn = "aggregate"
                THEN BasedOn(f, HighestConfidenceMember(f))
                ELSE BasedOn(f, f.cluster[1])

\* C8 witness: ReviewAggregator.aggregate merged a cluster whose first member
\* is not the one with the highest confidence, and whose members differ in line
C8_Witness ==
    /\ Done
    /\ result.fn = "aggregate"
    /\ \E i \in 1..Len(result.findings) :
          LET f == result.findings[i]
          IN  /\ Len(f.cluster) >= 2
              /\ f.cluster[1].finding.confidence < f.cluster[2].finding.confidence
              /\ f.cluster[1].finding.line_start # f.cluster[2].finding.line_start

\* severity weights of the priority formula, in tenths
ClaimedWeight(sev) ==
    CASE sev = "critical" -> 10
      [] sev = "warning" -> 6
      [] sev = "suggestion" -> 3
      [] sev = "nitpick" -> 1

ClaimedPriority(f) ==
    [num |-> ClaimedWeight(f.severity) * f.consensus_score.num * f.confidence.num,
     den |-> 10 * f.consensus_score.den * f.confidence.den]

C10_CriticalPartialRanksFirst ==
    (Done /\ result.fn = "aggregate" /\ result.agent_count = 2) =>
        \A i, j \in 1..Len(result.findings) :
            LET c == result.findings[i]
                w == result.findings[j]
            IN  (/\ c.severity = "critical" /\ Len(c.cluster) = 1
                 /\ c.cluster[1].finding.confidence = 90
                 /\ w.severity = "warning" /\ Len(w.cluster) = 2
                 /\ ClusterAgents(w) = {1, 2}
                 /\ \A m \in Members(w) :
                        m.finding.confidence = 85 /\ MemberSeverity(m) = "warning")
                => i < j

-----------------------------------------------------------------------------
(* C11: aggregating an empty list of agent results *)

\* the aggregator that produced result was handed an empty list
AggregatedEmpty ==
    /\ Done
    /\ agentRuns = <<>>
    /\ \/ result.fn = "aggregate"
       \/ result.fn = "aggregate_findings" /\ all_findings.value = <<>>

\* C11: aggregating an empty list of agent results returns a review with no
\* findings, agent_count 0 and review_quality_score exactly 0.0, in
\* ReviewAggregator.aggregate and in aggregate_findings
C11_EmptyAggregationScoresZero ==
    AggregatedEmpty =>
        /\ result.findings = <<>>
        /\ result.agent_count = 0
        /\ result.review_quality_score = Score(0)

-----------------------------------------------------------------------------
(* Decoded JSON responses: a field of a raw finding is missing, null, a     *)
(* string or a number, as json.loads leaves it                              *)

MaxJsonFindings == 2

J_missing == [kind |-> "missing", text |-> <<>>, n |-> 0]
J_null == [kind |-> "null", text |-> <<>>, n |-> 0]
JStr(text) == [kind |-> "str", text |-> text, n |-> 0]
JNum(n) == [kind |-> "num", text |-> <<>>, n |-> n]

NoError == "none"

\* the first exception of a sequence of evaluation steps, in order
RECURSIVE FirstError(_)
FirstError(errs) ==
    IF errs = <<>> THEN NoError
    ELSE IF Head(errs) # NoError THEN Head(errs)
    ELSE FirstError(Tail(errs))

DigitChars == {"0", "1", "2", "3", "4", "5", "6", "7", "8", "9"}

DigitOf(c) ==
    CASE c = "0" -> 0 [] c = "1" -> 1 [] c = "2" -> 2 [] c = "3" -> 3
      [] c = "4" -> 4 [] c = "5" -> 5 [] c = "6" -> 6 [] c = "7" -> 7
      [] c = "8" -> 8 [] c = "9" -> 9

\* the text is a decimal literal that int() and float() accept (after strip)
IsDecimal(text) ==
    /\ Strip(text) # <<>>
    /\ \A i \in 1..Len(Strip(text)) : Strip(text)[i] \in DigitChars

RECURSIVE DecimalOf(_)
DecimalOf(digits) ==
    IF digits = <<>> THEN 0
    ELSE 10 * DecimalOf(SubSeq(digits, 1, Len(digits) - 1))
         + DigitOf(digits[Len(digits)])

\* raw[key]: KeyError when the key is missing
KeyError(v) == IF v.kind = "missing" THEN "KeyError" ELSE NoError

\* int(v) / float(v): TypeError on None, ValueError on a non-numeric string
NumberError(v) ==
    CASE v.kind = "null" -> "TypeError"
      [] v.kind = "str" /\ ~IsDecimal(v.text) -> "ValueError"
      [] OTHER -> NoError

\* int(v) when it raises nothing (0 stands for no value when it raises)
IntValue(v) ==
    IF v.kind # "str" THEN v.n
    ELSE IF IsDecimal(v.text) THEN DecimalOf(Strip(v.text)) ELSE 0

\* float(v) when it raises nothing, in hundredths; a JSON number is held in
\* hundredths already
FloatValue(v) ==
    IF v.kind # "str" THEN v.n
    ELSE IF IsDecimal(v.text) THEN 100 * DecimalOf(Strip(v.text)) ELSE 0

\* v.lower(): AttributeError when v is None or a number
LowerError(v) == IF v.kind = "str" THEN NoError ELSE "AttributeError"

\* raw.get(key, default)
GetOr(v, default) == IF v.kind = "missing" THEN default ELSE v

\* the raw finding in the shape RawFinding gives it, each field read as the
\* code reads it once no step has raised: raw.get("line_start", 1),
\* raw.get("severity", "suggestion"), raw.get("confidence", 0.8)
AsRaw(raw) ==
    RawFinding(raw.file_path.text,
               IF raw.category.kind = "str" THEN raw.category.text ELSE None,
               <<IntValue(GetOr(raw.line_start, JNum(1))), None>>,
               IF raw.title.kind = "str" THEN raw.title.text ELSE None,
               IF raw.description.kind = "str" THEN raw.description.text ELSE None,
               GetOr(raw.severity, JStr(S_suggestion)).text,
               FloatValue(GetOr(raw.confidence, JNum(80))))

\* Severity(raw["severity"].lower())
SeverityError(v) ==
    FirstError(<<KeyError(v), LowerError(v),
                 IF SeverityOf(Lower(v.text)) = ValueError THEN "ValueError"
                 ELSE NoError>>)

\* Category(raw["category"].lower())
CategoryError(v) ==
    FirstError(<<KeyError(v), LowerError(v),
                 IF CategoryOf(Lower(v.text)) = ValueError THEN "ValueError"
                 ELSE NoError>>)

\* findings.py:48-57  ReviewFinding.__post_init__ on the converted values
PostInitError(raw) ==
    IF ReviewFindingValid(ToReviewFinding(AsRaw(raw))) THEN NoError ELSE "ValueError"

\* base.py:157-167: the exception that building the ReviewFinding raises, the
\* constructor arguments being evaluated in order
ParseFindingError(raw) ==
    FirstError(<<KeyError(raw.file_path),
                 KeyError(raw.line_start), NumberError(raw.line_start),
                 SeverityError(raw.severity),
                 CategoryError(raw.category),
                 KeyError(raw.title),
                 KeyError(raw.description),
                 NumberError(GetOr(raw.confidence, JNum(80))),
                 PostInitError(raw)>>)

\* base.py:170: except (KeyError, ValueError)
CaughtByParse(error) == error \in {"KeyError", "ValueError"}

\* base.py:150  ReviewAgent._parse_findings on decoded JSON, from the raw
\* findings left to parse and the findings kept so far
RECURSIVE ParseFrom(_, _)
ParseFrom(raws, findings) ==
    IF raws = <<>> THEN [status |-> "returned", error |-> NoError, findings |-> findings]
    ELSE IF ParseFindingError(Head(raws)) = NoError
    THEN ParseFrom(Tail(raws), Append(findings, ToReviewFinding(AsRaw(Head(raws)))))
    ELSE IF CaughtByParse(ParseFindingError(Head(raws)))
    THEN ParseFrom(Tail(raws), findings)
    ELSE [status |-> "raised", error |-> ParseFindingError(Head(raws)),
          findings |-> <<>>]

\* base.py:66-77: ReviewAgent.review decodes the response and parses its
\* findings; whatever is raised is logged and raised again
ReviewOutcome(out) ==
    IF out.kind = "garbage"
    THEN [status |-> "raised", error |-> "JSONDecodeError", findings |-> <<>>]
    ELSE ParseFrom(out.findings, <<>>)

SUMMARY_PARSE_FAILED == "Failed to parse review response"

\* review.py:358  parse_review_response: (findings, summary)
parse_review_response(out) ==
    IF out.kind = "garbage"
    THEN [findings |-> <<>>, summary |-> SUMMARY_PARSE_FAILED]
    ELSE [findings |-> out.findings, summary |-> SUMMARY_OK]

\* review.py:504-512 on decoded JSON: (agent_name, raw) for every raw finding
RECURSIVE JsonTagged(_, _)
JsonTagged(outs, a) ==
    IF a > Len(outs) THEN <<>>
    ELSE [k \in 1..Len(parse_review_response(outs[a]).findings) |->
              [agent |-> a, finding |-> parse_review_response(outs[a]).findings[k]]]
         \o JsonTagged(outs, a + 1)

\* review.py:423-427: what int() raises in _raw_lines_overlap
LinesOverlapError(raw1, raw2) ==
    FirstError(<<NumberError(GetOr(raw1.line_start, JNum(1))),
                 NumberError(GetOr(raw2.line_start, JNum(1)))>>)

\* review.py:441-463: what _raw_findings_similar raises; _raw_lines_overlap
\* is reached only for equal paths and categories
SimilarError(raw1, raw2) ==
    IF _normalize_path(AsRaw(raw1).file_path) # _normalize_path(AsRaw(raw2).file_path)
    THEN NoError
    ELSE IF Strip(Lower(OrDefault(AsRaw(raw1).category, S_logic)))
            # Strip(Lower(OrDefault(AsRaw(raw2).category, S_logic)))
    THEN NoError
    ELSE LinesOverlapError(raw1, raw2)

\* review.py:481-486 on decoded JSON: the inner loop from index j on, with
\* the cluster built so far; stops at the first comparison that raises
RECURSIVE JsonJoin(_, _, _, _, _)
JsonJoin(tg, i, j, used, cluster) ==
    IF j > Len(tg) THEN [error |-> NoError, cluster |-> cluster]
    ELSE IF j \in (used \cup {i}) THEN JsonJoin(tg, i, j + 1, used, cluster)
    ELSE IF SimilarError(tg[i].finding, tg[j].finding) # NoError
    THEN [error |-> SimilarError(tg[i].finding, tg[j].finding), cluster |-> cluster]
    ELSE IF _raw_findings_similar(AsRaw(tg[i].finding), AsRaw(tg[j].finding),
                                  SIMILARITY_THRESHOLD)
    THEN JsonJoin(tg, i, j + 1, used, Append(cluster, j))
    ELSE JsonJoin(tg, i, j + 1, used, cluster)

\* review.py:476-487 on decoded JSON: the outer loop from index i on
RECURSIVE JsonClusterFrom(_, _, _, _)
JsonClusterAppend(tg, i, used, clusters, joined) ==
    IF joined.error # NoError THEN [error |-> joined.error, clusters |-> clusters]
    ELSE JsonClusterFrom(tg, i + 1,
             used \cup {joined.cluster[k] : k \in 1..Len(joined.cluster)},
             Append(clusters, joined.cluster))

JsonClusterFrom(tg, i, used, clusters) ==
    IF i > Len(tg) THEN [error |-> NoError, clusters |-> clusters]
    ELSE IF i \in used THEN JsonClusterFrom(tg, i + 1, used, clusters)
    ELSE JsonClusterAppend(tg, i, used, clusters, JsonJoin(tg, i, 1, used, <<i>>))

\* review.py:524-552: what processing a cluster raises for its first member;
\* ValueError from Severity() and Category() is caught, nothing else is
ConsolidateError(raw) ==
    FirstError(<<LowerError(GetOr(raw.severity, JStr(S_suggestion))),
                 LowerError(GetOr(raw.category, JStr(S_logic))),
                 NumberError(GetOr(raw.line_start, JNum(1))),
                 NumberError(GetOr(raw.confidence, JNum(80)))>>)

\* review.py:518-553: the first exception over the clusters, in order
RECURSIVE ConsolidateErrors(_, _, _)
ConsolidateErrors(tg, clusters, c) ==
    IF c > Len(clusters) THEN NoError
    ELSE IF ConsolidateError(tg[clusters[c][1]].finding) # NoError
    THEN ConsolidateError(tg[clusters[c][1]].finding)
    ELSE ConsolidateErrors(tg, clusters, c + 1)

\* the all_findings list that the decoded responses make
AsAllFindings(outs) ==
    [a \in 1..Len(outs) |->
        [agent_name |-> a,
         findings |-> [k \in 1..Len(parse_review_response(outs[a]).findings) |->
                          AsRaw(parse_review_response(outs[a]).findings[k])],
         summary |-> parse_review_response(outs[a]).summary]]

\* review.py:492: aggregate_findings on decoded JSON, given what clustering
\* made of the tagged findings
JsonAggregateFrom(outs, tg, clustered) ==
    IF clustered.error # NoError
    THEN [status |-> "raised", error |-> clustered.error]
    ELSE IF ConsolidateErrors(tg, clustered.clusters, 1) # NoError
    THEN [status |-> "raised", error |-> ConsolidateErrors(tg, clustered.clusters, 1)]
    ELSE [status |-> "done", error |-> NoError,
          clusters |-> clustered.clusters,
          review |-> aggregate_findings(AsAllFindings(outs))]

JsonAggregate(outs) ==
    JsonAggregateFrom(outs, JsonTagged(outs, 1),
                      JsonClusterFrom(JsonTagged(outs, 1), 1, {}, <<>>))

-----------------------------------------------------------------------------
(* Parsing specification: two agents' decoded responses, with malformed     *)
(* findings, go through ReviewAgent.review and through aggregate_findings   *)

JsonFinding(line, sev, cat, conf, title) ==
    [file_path |-> JStr(P_a), line_start |-> line, severity |-> sev,
     category |-> cat, title |-> title, description |-> JStr(T_ab),
     confidence |-> conf]

JsonLineStarts == {JNum(1), JNum(20), J_missing, J_null, JStr(<<"x">>), JStr(<<"7">>)}
JsonSeverities == {JStr(S_warning), J_missing, J_null, JNum(1), JStr(T_ab)}
JsonCategories == {JStr(S_logic), J_null}
JsonConfidences == {JNum(80), J_missing, J_null, JStr(<<"x">>), JNum(150)}
JsonTitles == {JStr(T_ab), J_missing}

\* how many fields of the finding differ from a plain well-formed finding
Deviations(line, sev, cat, conf, title) ==
    (IF line = JNum(1) THEN 0 ELSE 1) + (IF sev = JStr(S_warning) THEN 0 ELSE 1)
    + (IF cat = JStr(S_logic) THEN 0 ELSE 1) + (IF conf = JNum(80) THEN 0 ELSE 1)
    + (IF title = JStr(T_ab) THEN 0 ELSE 1)

\* findings with at most one unusual field
JsonFindings ==
    {JsonFinding(x[1], x[2], x[3], x[4], x[5]) :
        x \in {y \in JsonLineStarts \X JsonSeverities \X JsonCategories
                     \X JsonConfidences \X JsonTitles :
                  Deviations(y[1], y[2], y[3], y[4], y[5]) <= 1}}

\* the responses of n agents: agent a's response is undecodable text or JSON
\* holding its share of the m findings of all
OutputsFrom(n, m, all, own, kinds) ==
    [a \in 1..n |->
        [kind |-> kinds[a], findings |-> RunFindings(all, own, m, a)]]

InitParse ==
    /\ \E m \in 0..MaxJsonFindings :
          \E own \in [1..m -> 1..2] :
              /\ Monotone(own, m)
              /\ \E kinds \in [1..2 -> {"json", "garbage"}] :
                     /\ \A k \in 1..m : kinds[own[k]] = "json"
                     /\ \E all \in [1..m -> JsonFindings] :
                            agentOutputs = OutputsFrom(2, m, all, own, kinds)
    /\ parsed = NotRun
    /\ jsonReview = NotRun
    /\ IdleBut("parse")

\* base.py:44: every agent's ReviewAgent.review handles its response
ParseResponses ==
    /\ parsed = NotRun
    /\ parsed' = [status |-> "parsed",
                  agents |-> [a \in 1..Len(agentOutputs) |->
                                 ReviewOutcome(agentOutputs[a])]]
    /\ UNCHANGED <<agentOutputs, jsonReview, notParse>>

\* review.py:716, 749: parse_review_response on every response, then
\* aggregate_findings
AggregateResponses ==
    /\ jsonReview = NotRun
    /\ jsonReview' = JsonAggregate(agentOutputs)
    /\ UNCHANGED <<agentOutputs, parsed, notParse>>

NextParse == ParseResponses \/ AggregateResponses

SpecParse == InitParse /\ [][NextParse]_vars

-----------------------------------------------------------------------------
(* C12: malformed findings *)

\* every field of the raw finding is present, of the expected type and in range
WellFormed(raw) ==
    /\ raw.file_path.kind = "str"
    /\ raw.line_start.kind = "num" /\ raw.line_start.n >= 1
    /\ raw.severity.kind = "str" /\ SeverityOf(Lower(raw.severity.text)) # ValueError
    /\ raw.category.kind = "str" /\ CategoryOf(Lower(raw.category.text)) # ValueError
    /\ raw.title.kind = "str"
    /\ raw.description.kind = "str"
    /\ raw.confidence.kind = "num" /\ raw.confidence.n >= 0 /\ raw.confidence.n <= 100

\* the k-th finding of tagged order is a member of some cluster
Clustered(k) ==
    \E c \in 1..Len(jsonReview.clusters) :
        \E m \in 1..Len(jsonReview.clusters[c]) : jsonReview.clusters[c][m] = k

\* C12: a malformed finding never makes parsing (_parse_findings on a decoded
\* response) or aggregation (aggregate_findings) raise; every well-formed
\* finding of every agent is still parsed and still aggregated, and an
\* undecodable response gives aggregate_findings zero findings and an
\* explanatory summary, not a failure
C12_MalformedNeverFatal ==
    /\ parsed.status = "parsed" =>
          \A a \in 1..Len(agentOutputs) :
              /\ agentOutputs[a].kind = "json" => parsed.agents[a].status = "returned"
              /\ \A k \in 1..Len(agentOutputs[a].findings) :
                     WellFormed(agentOutputs[a].findings[k]) =>
                         \E m \in 1..Len(parsed.agents[a].findings) :
                             parsed.agents[a].findings[m]
                                 = ToReviewFinding(AsRaw(agentOutputs[a].findings[k]))
    /\ jsonReview # NotRun =>
          /\ jsonReview.status = "done"
          /\ \A k \in 1..Len(JsonTagged(agentOutputs, 1)) :
                 WellFormed(JsonTagged(agentOutputs, 1)[k].finding) => Clustered(k)
          /\ \A a \in 1..Len(agentOutputs) :
                 agentOutputs[a].kind = "garbage" =>
                     /\ AsAllFindings(agentOutputs)[a].findings = <<>>
                     /\ AsAllFindings(agentOutputs)[a].summary = SUMMARY_PARSE_FAILED

-----------------------------------------------------------------------------
(* orchestrator.py: AgentOrchestrator. Agents are their agent_id 1..n; a     *)
(* task is (agent, state), the state being "running" or what the task       *)
(* settled as; a review is (agent_id, attempt).                             *)

MaxOrchAgents == 3
MaxRetries == 2

\* what a task of _run_agent_with_timeout can settle as: the agent's
\* AgentReview, asyncio.TimeoutError from wait_for, an exception the agent
\* raised, or a value that is neither an AgentReview nor an exception
TaskOutcomes == {"AgentReview", "TimeoutError", "RuntimeError", "unexpected"}

\* orchestrator.py:77-83, 170-175: one task per agent, in the list's order
CreateTasks(agents) ==
    [i \in 1..Len(agents) |-> [agent |-> agents[i], state |-> "running"]]

\* every agent of the list has one more invocation of its review()
Invoke(counts, agents) ==
    [a \in DOMAIN counts |->
        counts[a] + Cardinality({i \in 1..Len(agents) : agents[i] = a})]

\* asyncio.gather(*tasks, return_exceptions=True) completes
AllSettled(ts) == \A i \in 1..Len(ts) : ts[i].state # "running"

\* asyncio.gather(*tasks) without return_exceptions: completes with the first
\* exception as well
FirstExceptionOrAllSettled(ts) ==
    \/ \A i \in 1..Len(ts) : ts[i].state # "running"
    \/ \E i \in 1..Len(ts) : ts[i].state \in {"TimeoutError", "RuntimeError"}

\* orchestrator.py:86, 177: the await of gather returns
GatherDone(ts) == AllSettled(ts)

\* orchestrator.py:93-98, 181-183: the AgentReviews, in zip order
RECURSIVE SuccessfulOf(_, _)
SuccessfulOf(ts, attempt) ==
    IF ts = <<>> THEN <<>>
    ELSE IF Head(ts).state = "AgentReview"
    THEN <<[agent_id |-> Head(ts).agent, attempt |-> attempt]>>
         \o SuccessfulOf(Tail(ts), attempt)
    ELSE SuccessfulOf(Tail(ts), attempt)

\* orchestrator.py:99-107: "{agent_id} (timeout)", "{agent_id} ({type name})",
\* "{agent_id} (unknown)"
FailureNote(task) ==
    [agent_id |-> task.agent,
     reason |-> CASE task.state = "TimeoutError" -> "timeout"
                  [] task.state = "unexpected" -> "unknown"
                  [] OTHER -> task.state]

RECURSIVE FailedOf(_)
FailedOf(ts) ==
    IF ts = <<>> THEN <<>>
    ELSE IF Head(ts).state = "AgentReview" THEN FailedOf(Tail(ts))
    ELSE <<FailureNote(Head(ts))>> \o FailedOf(Tail(ts))

\* every agent of the round, whatever its task settled as
AgentsOf(ts) == [i \in 1..Len(ts) |-> ts[i].agent]

\* orchestrator.py:180-185: still_failing
RECURSIVE StillFailing(_)
StillFailing(ts) ==
    IF ts = <<>> THEN <<>>
    ELSE IF Head(ts).state = "AgentReview" THEN StillFailing(Tail(ts))
    ELSE <<Head(ts).agent>> \o StillFailing(Tail(ts))

\* orchestrator.py:110-122: the quorum check of review()
ReviewQuorum(successful, failed, min_agents_required) ==
    IF Len(successful) < min_agents_required
    THEN [status |-> "raised", error |-> "InsufficientAgentsError",
          succeeded |-> Len(successful), failed |-> failed]
    ELSE [status |-> "returned", reviews |-> successful]

\* orchestrator.py:194-199: the quorum check of review_with_retry(); the
\* message is "Only {n} agents succeeded after retries"
RetryQuorum(successful, min_agents_required) ==
    IF Len(successful) < min_agents_required
    THEN [status |-> "raised", error |-> "InsufficientAgentsError",
          succeeded |-> Len(successful), failed |-> <<>>]
    ELSE [status |-> "returned", reviews |-> successful]

OrchConfigs ==
    {[method |-> "review", agents |-> [i \in 1..n |-> i],
      min_agents_required |-> m, max_retries |-> 2, retry_on_failure |-> TRUE] :
        n \in 0..MaxOrchAgents, m \in 0..MaxOrchAgents}
    \cup
    {[method |-> "review_with_retry", agents |-> [i \in 1..n |-> i],
      min_agents_required |-> m, max_retries |-> r, retry_on_failure |-> b] :
        n \in 0..MaxOrchAgents, m \in 0..MaxOrchAgents, r \in 0..MaxRetries,
        b \in BOOLEAN}

InitOrch ==
    /\ orchConfig \in OrchConfigs
    /\ orchPc = "start"
    /\ tasks = <<>>
    /\ settled = <<>>
    /\ remaining_agents = orchConfig.agents
    /\ attempts = 0
    /\ all_reviews = <<>>
    /\ orchFailed = <<>>
    /\ invoked = [a \in 1..Len(orchConfig.agents) |-> 0]
    /\ orchResult = NotRun
    /\ IdleBut("orch")

\* orchestrator.py:77-86: review() creates every task, then awaits gather
ReviewCreateTasks ==
    /\ orchPc = "start"
    /\ orchConfig.method = "review"
    /\ tasks' = CreateTasks(orchConfig.agents)
    /\ invoked' = Invoke(invoked, orchConfig.agents)
    /\ orchPc' = "gather"
    /\ UNCHANGED <<orchConfig, settled, remaining_agents, attempts, all_reviews,
                   orchFailed, orchResult, notOrch>>

\* orchestrator.py:145-148: task i settles as the outcome
Settle(i, outcome) ==
    /\ i \in 1..Len(tasks)
    /\ tasks[i].state = "running"
    /\ tasks' = [tasks EXCEPT ![i].state = outcome]
    /\ settled' = Append(settled, tasks[i].agent)
    /\ UNCHANGED <<orchConfig, orchPc, remaining_agents, attempts, all_reviews,
                   orchFailed, invoked, orchResult, notOrch>>

\* the agent's review() returns its AgentReview within the timeout
AgentReturns == \E i \in 1..MaxOrchAgents + 1 : Settle(i, "AgentReview")

\* wait_for cancels the agent's review() at the timeout
AgentTimesOut == \E i \in 1..MaxOrchAgents + 1 : Settle(i, "TimeoutError")

\* the agent's review() raises
AgentRaises == \E i \in 1..MaxOrchAgents + 1 : Settle(i, "RuntimeError")

\* the agent's review() returns something that is not an AgentReview
AgentReturnsOther == \E i \in 1..MaxOrchAgents + 1 : Settle(i, "unexpected")

\* orchestrator.py:86-122: gather returns; review() sorts the results and
\* checks the quorum
ReviewGather ==
    /\ orchPc = "gather"
    /\ orchConfig.method = "review"
    /\ GatherDone(tasks)
    /\ all_reviews' = SuccessfulOf(tasks, 0)
    /\ orchFailed' = FailedOf(tasks)
    /\ orchResult' = ReviewQuorum(SuccessfulOf(tasks, 0), FailedOf(tasks),
                                  orchConfig.min_agents_required)
    /\ orchPc' = "done"
    /\ UNCHANGED <<orchConfig, tasks, settled, remaining_agents, attempts,
                   invoked, notOrch>>

\* orchestrator.py:166: the loop condition of review_with_retry()
RetryContinues ==
    remaining_agents # <<>> /\ attempts < orchConfig.max_retries + 1

\* orchestrator.py:166-177: a round creates the tasks of the remaining agents
RetryCreateTasks ==
    /\ orchPc = "start"
    /\ orchConfig.method = "review_with_retry"
    /\ RetryContinues
    /\ tasks' = CreateTasks(remaining_agents)
    /\ settled' = <<>>
    /\ invoked' = Invoke(invoked, remaining_agents)
    /\ orchPc' = "gather"
    /\ UNCHANGED <<orchConfig, remaining_agents, attempts, all_reviews,
                   orchFailed, orchResult, notOrch>>

\* orchestrator.py:177-192: gather returns; the round's results are processed
RetryGather ==
    /\ orchPc = "gather"
    /\ orchConfig.method = "review_with_retry"
    /\ GatherDone(tasks)
    /\ all_reviews' = all_reviews \o SuccessfulOf(tasks, attempts)
    /\ remaining_agents' = IF orchConfig.retry_on_failure THEN StillFailing(tasks)
                           ELSE <<>>
    /\ attempts' = attempts + 1
    /\ orchPc' = "start"
    /\ UNCHANGED <<orchConfig, tasks, settled, orchFailed, invoked,
                   orchResult, notOrch>>

\* orchestrator.py:194-199: the loop is over; the quorum is checked
RetryFinish ==
    /\ orchPc = "start"
    /\ orchConfig.method = "review_with_retry"
    /\ ~RetryContinues
    /\ orchResult' = RetryQuorum(all_reviews, orchConfig.min_agents_required)
    /\ orchPc' = "done"
    /\ UNCHANGED <<orchConfig, tasks, settled, remaining_agents, attempts,
                   all_reviews, orchFailed, invoked, notOrch>>

NextOrch ==
    \/ ReviewCreateTasks
    \/ AgentReturns
    \/ AgentTimesOut
    \/ AgentRaises
    \/ AgentReturnsOther
    \/ ReviewGather
    \/ RetryCreateTasks
    \/ RetryGather
    \/ RetryFinish

SpecOrch == InitOrch /\ [][NextOrch]_vars

-----------------------------------------------------------------------------
(* C13: failure isolation in AgentOrchestrator.review *)

\* the state of the task that runs the agent, in the current round
TaskStateOf(agent) ==
    tasks[CHOOSE i \in 1..Len(tasks) : tasks[i].agent = agent].state

\* review() has created its tasks: one per configured agent, each agent
\* invoked once, no task waiting for another to be created
AllStartedTogether ==
    /\ Len(tasks) = Len(orchConfig.agents)
    /\ \A i \in 1..Len(tasks) : tasks[i].agent = orchConfig.agents[i]
    /\ \A a \in DOMAIN invoked : invoked[a] = 1

\* a running task can settle in every way, whatever its siblings did
NoTaskBlocked ==
    \A i \in 1..Len(tasks) :
        tasks[i].state = "running" =>
            \A outcome \in TaskOutcomes : ENABLED Settle(i, outcome)

\* a step changes the state of at most the one task that settles, and a
\* settled task keeps what it settled as
OnlyOwnTaskChanges ==
    (orchConfig.method = "review" /\ tasks # <<>>) =>
        /\ Len(tasks') = Len(tasks)
        /\ \A i \in 1..Len(tasks) :
               /\ tasks[i].state # "running" => tasks'[i] = tasks[i]
               /\ tasks'[i] # tasks[i] =>
                      /\ tasks'[i].state \in TaskOutcomes
                      /\ \A j \in 1..Len(tasks) : j # i => tasks'[j] = tasks[j]

\* the quorum decision of review() is taken when every task has settled
DecidedAfterAllSettled ==
    orchResult # NotRun =>
        /\ AllSettled(tasks)
        /\ Len(settled) = Len(orchConfig.agents)

\* C13: review() starts every agent's task before it awaits any; whatever the
\* order of completions, a timeout or exception of one task leaves every other
\* task running and able to settle; the quorum decision (return or
\* InsufficientAgentsError) is taken only after every task has settled
C13_FailuresIsolated ==
    /\ [](orchConfig.method = "review" /\ orchPc \in {"gather", "done"} =>
              AllStartedTogether /\ NoTaskBlocked /\ DecidedAfterAllSettled)
    /\ [][OnlyOwnTaskChanges]_vars

\* review() returned although the first task to settle timed out and another
\* raised, a later one succeeding
C13_Witness ==
    /\ orchConfig.method = "review"
    /\ orchResult # NotRun /\ orchResult.status = "returned"
    /\ Len(settled) = 3
    /\ TaskStateOf(settled[1]) = "TimeoutError"
    /\ TaskStateOf(settled[2]) = "RuntimeError"
    /\ TaskStateOf(settled[3]) = "AgentReview"

-----------------------------------------------------------------------------
(* C14: the quorum decision *)

\* the agents with a review among the collected ones
SucceededAgents == {all_reviews[k].agent_id : k \in 1..Len(all_reviews)}

\* the configured agents without a successful review; each of them has a task
\* in the last round that ran
FailedAgentIds ==
    {orchConfig.agents[i] : i \in 1..Len(orchConfig.agents)} \ SucceededAgents

\* the error names the agent with a reason that tells a timeout from a raised
\* error
CarriesFailureOf(agent) ==
    \E k \in 1..Len(orchResult.failed) :
        /\ orchResult.failed[k].agent_id = agent
        /\ (orchResult.failed[k].reason = "timeout")
               <=> (TaskStateOf(agent) = "TimeoutError")

\* C14: when fewer than min_agents_required agents succeeded, review() and
\* review_with_retry() raise InsufficientAgentsError naming every failed agent
\* with its reason, a timeout told apart from a raised error; otherwise they
\* return exactly the successful agents' reviews
C14_QuorumDecision ==
    orchResult # NotRun =>
        IF Cardinality(SucceededAgents) < orchConfig.min_agents_required
        THEN /\ orchResult.status = "raised"
             /\ orchResult.error = "InsufficientAgentsError"
             /\ \A a \in FailedAgentIds : CarriesFailureOf(a)
        ELSE /\ orchResult.status = "returned"
             /\ orchResult.reviews = all_reviews
             /\ Len(all_reviews) = Cardinality(SucceededAgents)

-----------------------------------------------------------------------------
(* C15: review_with_retry re-runs the failed agents only, a bounded number   *)
(* of times                                                                  *)

\* a round is running: none of its agents has a review yet
RoundSkipsSucceeded ==
    orchPc = "gather" => \A i \in 1..Len(tasks) : tasks[i].agent \notin SucceededAgents

\* the rounds and the invocations of every agent are bounded
RetriesBounded ==
    /\ attempts <= orchConfig.max_retries + 1
    /\ \A a \in DOMAIN invoked : invoked[a] <= orchConfig.max_retries + 1
    /\ (~orchConfig.retry_on_failure) => attempts <= 1

\* at most one review per agent
OneReviewPerAgent == Len(all_reviews) = Cardinality(SucceededAgents)

\* the quorum is checked when the loop is over: no round is running, and no
\* agent is left to run or the rounds are used up
QuorumAfterLastRound ==
    orchResult # NotRun =>
        /\ AllSettled(tasks)
        /\ remaining_agents = <<>> \/ attempts = orchConfig.max_retries + 1
        /\ (~orchConfig.retry_on_failure /\ orchConfig.agents # <<>>) => attempts = 1

\* a retry round starts: each of its agents had a task in the previous round
\* that did not give an AgentReview
RerunsOnlyFailed ==
    (orchPc = "start" /\ orchPc' = "gather" /\ attempts > 0) =>
        \A i \in 1..Len(tasks') :
            \E j \in 1..Len(tasks) :
                /\ tasks[j].agent = tasks'[i].agent
                /\ tasks[j].state \in TaskOutcomes \ {"AgentReview"}

\* C15: in review_with_retry an agent that has a successful review is never
\* invoked again, a retry round runs only agents that failed in the round
\* before, no agent is invoked more than max_retries + 1 times, there are at
\* most max_retries + 1 rounds (one round when retry_on_failure is false and
\* there is an agent to run), the collected reviews hold at most one review per
\* agent, and the quorum is checked only after the last round
C15_RetryOnlyFailed ==
    /\ [](orchConfig.method = "review_with_retry" =>
              /\ RoundSkipsSucceeded
              /\ RetriesBounded
              /\ OneReviewPerAgent
              /\ QuorumAfterLastRound)
    /\ [][orchConfig.method = "review_with_retry" => RerunsOnlyFailed]_vars

\* three rounds ran: agent 1 succeeded at once and was invoked once, agent 2
\* succeeded in the last round, agent 3 failed three times
C15_Witness ==
    /\ orchConfig.method = "review_with_retry"
    /\ orchResult # NotRun
    /\ attempts = 3
    /\ Len(orchConfig.agents) = 3
    /\ invoked = <<1, 3, 3>>
    /\ all_reviews = <<[agent_id |-> 1, attempt |-> 0], [agent_id |-> 2, attempt |-> 2]>>

-----------------------------------------------------------------------------
(* C16: order of the successful reviews *)

\* the place of the agent in the configured list
LaunchIndex(agent) ==
    CHOOSE i \in 1..Len(orchConfig.agents) : orchConfig.agents[i] = agent

\* C16: the successful reviews that review() and review_with_retry() return
\* are in agent launch order whatever the completion order: the review of an
\* agent configured earlier comes first, also when that agent succeeded only
\* in a retry round
C16_LaunchOrder ==
    (orchResult # NotRun /\ orchResult.status = "returned") =>
        \A k \in 1..Len(orchResult.reviews) :
            \A m \in 1..Len(orchResult.reviews) :
                k < m => LaunchIndex(orchResult.reviews[k].agent_id)
                             < LaunchIndex(orchResult.reviews[m].agent_id)

-----------------------------------------------------------------------------
(* review.py:278  apply_cross_review. A finding is (id, severity); an        *)
(* assessment is a decoded JSON object with the fields id, valid and rank;  *)
(* ratios and mean ranks are exact fractions.                                *)

MaxCrossFindings == 2
MaxCrossAgents == 2
MaxCrossVotes == 2

DEFAULT_MIN_VALIDATION_AGREEMENT == [num |-> 1, den |-> 2]
UNVOTED_RANK == 99

JBool(b) == [kind |-> "bool", text |-> <<>>, n |-> IF b THEN 1 ELSE 0]

\* the truth value Python gives the decoded value in "if v"
Truthy(v) ==
    CASE v.kind = "bool" -> v.n = 1
      [] v.kind = "num" -> v.n # 0
      [] v.kind = "str" -> v.text # <<>>
      [] OTHER -> FALSE

\* review.py:297: valid = a.get("valid", True), used as it is
VoteValid(a) == GetOr(a.valid, JBool(TRUE))

\* review.py:298-302: rank = a.get("rank", 99); max(1, int(rank)) for a
\* number (a bool is an int), 99 otherwise
VoteRank(a) ==
    IF GetOr(a.rank, JNum(UNVOTED_RANK)).kind \in {"num", "bool"}
    THEN (IF GetOr(a.rank, JNum(UNVOTED_RANK)).n < 1 THEN 1
          ELSE GetOr(a.rank, JNum(UNVOTED_RANK)).n)
    ELSE UNVOTED_RANK

\* review.py:293-303: the votes (valid, rank) that the assessments hold for the
\* finding, agent by agent; an assessment of an unknown id is skipped
RECURSIVE VotesIn(_, _)
VotesIn(assessments, fid) ==
    IF assessments = <<>> THEN <<>>
    ELSE IF Head(assessments).id = fid
    THEN <<[valid |-> VoteValid(Head(assessments)),
            rank |-> VoteRank(Head(assessments))]>>
         \o VotesIn(Tail(assessments), fid)
    ELSE VotesIn(Tail(assessments), fid)

RECURSIVE id_to_votes(_, _)
id_to_votes(all_assessments, fid) ==
    IF all_assessments = <<>> THEN <<>>
    ELSE VotesIn(Head(all_assessments), fid)
         \o id_to_votes(Tail(all_assessments), fid)

\* review.py:314: valid_count
RECURSIVE ValidCount(_)
ValidCount(votes) ==
    IF votes = <<>> THEN 0
    ELSE (IF Truthy(Head(votes).valid) THEN 1 ELSE 0) + ValidCount(Tail(votes))

\* review.py:318: sum(r for _, r in votes)
RECURSIVE RankSum(_)
RankSum(votes) ==
    IF votes = <<>> THEN 0 ELSE Head(votes).rank + RankSum(Tail(votes))

FracLess(a, b) == a.num * b.den < b.num * a.den

\* review.py:315: valid_ratio = valid_count / n_agents
ValidRatio(votes, n_agents) == [num |-> ValidCount(votes), den |-> n_agents]

\* review.py:310-319: the kept entry (finding, valid_ratio, avg_rank) of the
\* finding, or nothing when it is dropped
KeptEntry(finding, votes, n_agents, threshold) ==
    IF votes = <<>>
    THEN <<[finding |-> finding, valid_ratio |-> [num |-> 1, den |-> 1],
            avg_rank |-> [num |-> UNVOTED_RANK, den |-> 1]]>>
    ELSE IF FracLess(ValidRatio(votes, n_agents), threshold) THEN <<>>
    ELSE <<[finding |-> finding, valid_ratio |-> ValidRatio(votes, n_agents),
            avg_rank |-> [num |-> RankSum(votes), den |-> Len(votes)]]>>

\* review.py:309-319: kept, in the order of review.findings
RECURSIVE Kept(_, _, _)
Kept(findings, all_assessments, threshold) ==
    IF findings = <<>> THEN <<>>
    ELSE KeptEntry(Head(findings), id_to_votes(all_assessments, Head(findings).id),
                   Len(all_assessments), threshold)
         \o Kept(Tail(findings), all_assessments, threshold)

\* the same key for every entry: the list stays as it is
NoKeyLess(x, y) == FALSE

\* review.py:322-327: the sort key (avg_rank, severity_order) of x is below
\* that of y
CrossKeyLess(x, y) ==
    \/ FracLess(x.avg_rank, y.avg_rank)
    \/ /\ x.avg_rank.num * y.avg_rank.den = y.avg_rank.num * x.avg_rank.den
       /\ SeverityIndex(x.finding.severity) < SeverityIndex(y.finding.severity)

\* how many entries of the sorted list stay before x: list.sort is stable
RECURSIVE CrossKeptBefore(_, _)
CrossKeptBefore(sorted, x) ==
    IF sorted = <<>> THEN 0
    ELSE IF CrossKeyLess(x, Head(sorted)) THEN 0
    ELSE 1 + CrossKeptBefore(Tail(sorted), x)

\* review.py:327: kept.sort(key=...)
RECURSIVE CrossSort(_, _)
CrossSort(entries, sorted) ==
    IF entries = <<>> THEN sorted
    ELSE CrossSort(Tail(entries),
                   InsertAt(sorted, Head(entries),
                            CrossKeptBefore(sorted, Head(entries))))

FindingsOfKept(kept) == [k \in 1..Len(kept) |-> kept[k].finding]

\* review.py:329-343: the summary: the input summary, the number of findings
\* the drop clause names (0: no clause) and whether the re-ranked clause is
\* appended
CrossSummary(review, new_findings) ==
    [base |-> review.summary,
     dropped |-> Len(review.findings) - Len(new_findings),
     reranked |-> review.findings # new_findings]

\* review.py:345-356: the review that is returned
CrossReviewed(review, new_findings) ==
    [status |-> "returned",
     findings |-> new_findings,
     summary |-> CrossSummary(review, new_findings),
     agent_count |-> review.agent_count,
     review_quality_score |-> review.review_quality_score]

\* review.py:278  apply_cross_review
apply_cross_review(review, all_assessments, min_validation_agreement) ==
    IF all_assessments = <<>>
    THEN [status |-> "returned", findings |-> review.findings,
          summary |-> [base |-> review.summary, dropped |-> 0, reranked |-> FALSE],
          agent_count |-> review.agent_count,
          review_quality_score |-> review.review_quality_score]
    ELSE CrossReviewed(review,
             FindingsOfKept(CrossSort(Kept(review.findings, all_assessments,
                                           min_validation_agreement), <<>>)))

-----------------------------------------------------------------------------
(* Cross-review specification: a review of one or two findings and the      *)
(* assessments of up to two agents go through apply_cross_review             *)

CrossSeverities == <<"warning", "critical", "suggestion", "nitpick">>

CrossFindings(n) == [k \in 1..n |-> [id |-> k, severity |-> CrossSeverities[k]]]

Vote(valid, rank) == [valid |-> valid, rank |-> rank]

\* boolean valid, small rank
PlainVotes == {Vote(JBool(b), JNum(r)) : b \in BOOLEAN, r \in 1..2}

\* valid as text, a rank beyond 99, no rank, a rank below 1, no valid
UnusualVotes ==
    {Vote(JStr(<<"f", "a", "l", "s", "e">>), JNum(1)),
     Vote(JStr(<<"t", "r", "u", "e">>), JNum(2)),
     Vote(JBool(TRUE), JNum(100)),
     Vote(JBool(FALSE), J_missing),
     Vote(J_missing, JNum(0))}

Thresholds == {DEFAULT_MIN_VALIDATION_AGREEMENT, [num |-> 3, den |-> 5]}

\* the slot of the unusual vote, if there is one
OddSlot(odd) == IF odd = <<>> THEN {} ELSE {odd[1]}

\* the vote of the slot (agent a, finding k)
SlotVote(slot, plain, odd) ==
    IF odd # <<>> /\ odd[1] = slot THEN odd[2] ELSE plain[slot]

\* the assessments of agent a for the findings k..n, in the findings' order
RECURSIVE AssessmentsOf(_, _, _, _, _, _)
AssessmentsOf(a, k, n, slots, plain, odd) ==
    IF k > n THEN <<>>
    ELSE IF <<a, k>> \in slots
    THEN <<[id |-> k, valid |-> SlotVote(<<a, k>>, plain, odd).valid,
            rank |-> SlotVote(<<a, k>>, plain, odd).rank]>>
         \o AssessmentsOf(a, k + 1, n, slots, plain, odd)
    ELSE AssessmentsOf(a, k + 1, n, slots, plain, odd)

CrossInput(n, m, slots, plain, odd, threshold) ==
    [status |-> "given",
     review |-> [findings |-> CrossFindings(n), summary |-> SUMMARY_OK,
                 agent_count |-> m, review_quality_score |-> Score(90)],
     all_assessments |-> [a \in 1..m |-> AssessmentsOf(a, 1, n, slots, plain, odd)],
     min_validation_agreement |-> threshold]

InitCross ==
    /\ \E n \in 1..MaxCrossFindings :
          \E m \in 0..MaxCrossAgents :
              \E slots \in SUBSET ((1..m) \X (1..n)) :
                  /\ Cardinality(slots) <= MaxCrossVotes
                  /\ \E odd \in {<<>>} \cup {<<sl, u>> : sl \in slots, u \in UnusualVotes} :
                         \E plain \in [slots \ OddSlot(odd) -> PlainVotes] :
                             \E threshold \in Thresholds :
                                 crossIn = CrossInput(n, m, slots, plain, odd, threshold)
    /\ crossOut = NotRun
    /\ IdleBut("cross")

\* review.py:278: apply_cross_review is called
ApplyCrossReview ==
    /\ crossOut = NotRun
    /\ crossOut' = apply_cross_review(crossIn.review, crossIn.all_assessments,
                                      crossIn.min_validation_agreement)
    /\ UNCHANGED <<crossIn, notCross>>

NextCross == ApplyCrossReview

SpecCross == InitCross /\ [][NextCross]_vars

-----------------------------------------------------------------------------
(* C17: which findings cross-review drops *)

\* the votes the finding received, over all agents
VotesReceived(fid) == id_to_votes(crossIn.all_assessments, fid)

\* the finding is among those apply_cross_review returned
Survives(fid) == \E k \in 1..Len(crossOut.findings) : crossOut.findings[k].id = fid

\* (votes marked valid) / (votes received) is below the threshold
BelowAgreement(fid) ==
    FracLess([num |-> ValidCount(VotesReceived(fid)), den |-> Len(VotesReceived(fid))],
             crossIn.min_validation_agreement)

\* C17: apply_cross_review drops a finding exactly when it received at least
\* one vote and the valid votes divided by the votes it received are below
\* min_validation_agreement; agents that are silent on it do not count, and a
\* finding without votes is kept
C17_DropByVotesReceived ==
    crossOut # NotRun =>
        \A k \in 1..Len(crossIn.review.findings) :
            (~Survives(crossIn.review.findings[k].id))
                <=> /\ VotesReceived(crossIn.review.findings[k].id) # <<>>
                    /\ BelowAgreement(crossIn.review.findings[k].id)

-----------------------------------------------------------------------------
(* C18: the valid field is coerced to a boolean *)

\* the boolean that a vote's valid value stands for: the text "true" is true,
\* any other text ("false") is false
CoercedValid(v) ==
    IF v.kind = "str" THEN JBool(Lower(Strip(v.text)) = <<"t", "r", "u", "e">>)
    ELSE JBool(Truthy(v))

\* the assessments with every valid value replaced by its boolean
CoercedAssessments(all_assessments) ==
    [a \in 1..Len(all_assessments) |->
        [k \in 1..Len(all_assessments[a]) |->
            [all_assessments[a][k] EXCEPT
                !.valid = CoercedValid(GetOr(all_assessments[a][k].valid, JBool(TRUE)))]]]

\* C18: apply_cross_review coerces a vote's valid value to a boolean before it
\* counts: the text "false" counts as an invalid vote and the text "true" as a
\* valid one, so the outcome is that of the same votes given as booleans
C18_ValidCoerced ==
    crossOut # NotRun =>
        crossOut = apply_cross_review(crossIn.review,
                                      CoercedAssessments(crossIn.all_assessments),
                                      crossIn.min_validation_agreement)

-----------------------------------------------------------------------------
(* C19: the quality score after cross-review *)

AddFrac(a, b) == [num |-> a.num * b.den + b.num * a.den, den |-> a.den * b.den]

\* the valid ratio of a surviving finding: valid votes over votes received,
\* 1 when it received none
SurvivorRatio(fid) ==
    IF VotesReceived(fid) = <<>> THEN [num |-> 1, den |-> 1]
    ELSE [num |-> ValidCount(VotesReceived(fid)), den |-> Len(VotesReceived(fid))]

\* the sum of the valid ratios of the findings
RECURSIVE SumRatios(_)
SumRatios(findings) ==
    IF findings = <<>> THEN [num |-> 0, den |-> 1]
    ELSE AddFrac(SurvivorRatio(Head(findings).id), SumRatios(Tail(findings)))

\* round(average valid ratio * min(1, participants / 3), 2)
RecomputedScore(findings, participants) ==
    Score(Round2(SumRatios(findings).num * Min(participants, 3),
                 SumRatios(findings).den * Len(findings) * 3))

\* C19: given the assessments of at least one agent, apply_cross_review
\* returns a review_quality_score recomputed from the surviving findings'
\* valid ratios and the number of participating agents (average valid ratio
\* times min(1, participants / 3)), not the input review's score
C19_ScoreRecomputed ==
    (crossOut # NotRun /\ crossIn.all_assessments # <<>> /\ crossOut.findings # <<>>) =>
        crossOut.review_quality_score
            = RecomputedScore(crossOut.findings, Len(crossIn.all_assessments))

-----------------------------------------------------------------------------
(* C20: the order of the surviving findings *)

\* the mean of the ranks the agents gave the finding (a rank below 1 counts as
\* 1, a missing rank as 99)
MeanRank(fid) ==
    [num |-> RankSum(VotesReceived(fid)), den |-> Len(VotesReceived(fid))]

\* the sort position of the finding: its mean rank, 99 when it has no votes
RankKey(fid) ==
    IF VotesReceived(fid) = <<>> THEN [num |-> UNVOTED_RANK, den |-> 1]
    ELSE MeanRank(fid)

\* every finding of the input that is not dropped for its votes is returned,
\* once
SurvivorsRetained ==
    /\ \A k \in 1..Len(crossIn.review.findings) :
           VotesReceived(crossIn.review.findings[k].id) = <<>> =>
               Survives(crossIn.review.findings[k].id)
    /\ \A k \in 1..Len(crossOut.findings) :
           \A m \in 1..Len(crossOut.findings) :
               crossOut.findings[k].id = crossOut.findings[m].id => k = m

\* finding f sorts strictly before finding g: lower mean rank, or the same
\* mean rank and a more severe severity
SortsBefore(f, g) ==
    \/ FracLess(RankKey(f.id), RankKey(g.id))
    \/ /\ ~FracLess(RankKey(g.id), RankKey(f.id))
       /\ SeverityIndex(f.severity) < SeverityIndex(g.severity)

\* ascending mean rank, ties by severity with critical first
OrderedByRankThenSeverity ==
    \A k \in 1..Len(crossOut.findings) :
        \A m \in 1..Len(crossOut.findings) :
            k < m => ~SortsBefore(crossOut.findings[m], crossOut.findings[k])

\* every finding without votes comes after every finding with votes
UnvotedAfterVoted ==
    \A k \in 1..Len(crossOut.findings) :
        \A m \in 1..Len(crossOut.findings) :
            (/\ VotesReceived(crossOut.findings[k].id) = <<>>
             /\ VotesReceived(crossOut.findings[m].id) # <<>>) => m < k

\* every surviving finding with votes has a mean rank below 99
VotedRanksBelowSentinel ==
    \A k \in 1..Len(crossOut.findings) :
        VotesReceived(crossOut.findings[k].id) # <<>> =>
            FracLess(MeanRank(crossOut.findings[k].id), [num |-> UNVOTED_RANK, den |-> 1])

\* C20 as stated: the survivors are in ascending mean rank, ties by severity
\* (critical first), and whatever positive ranks the agents give, every
\* finding without votes is retained and comes after every finding with votes
C20_UnvotedLastAnyRank ==
    (crossOut # NotRun /\ crossIn.all_assessments # <<>>) =>
        /\ SurvivorsRetained
        /\ OrderedByRankThenSeverity
        /\ UnvotedAfterVoted

\* C20 amended: the survivors are in ascending mean rank, a finding without
\* votes counting as rank 99, ties by severity (critical first); every finding
\* without votes is retained, and it comes after every finding with votes
\* provided the voted findings' mean ranks are below 99
C20_UnvotedLastBelowSentinel ==
    (crossOut # NotRun /\ crossIn.all_assessments # <<>>) =>
        /\ SurvivorsRetained
        /\ OrderedByRankThenSeverity
        /\ VotedRanksBelowSentinel => UnvotedAfterVoted

\* finding 1 has no votes, finding 2 has votes of mean rank below 99: the
\* returned order is 2, 1
C20_Witness ==
    /\ crossOut # NotRun
    /\ Len(crossIn.review.findings) = 2
    /\ VotesReceived(1) = <<>>
    /\ VotesReceived(2) # <<>>
    /\ FracLess(MeanRank(2), [num |-> UNVOTED_RANK, den |-> 1])
    /\ Len(crossOut.findings) = 2
    /\ crossOut.findings[1].id = 2
    /\ crossOut.findings[2].id = 1

-----------------------------------------------------------------------------
(* C21: the summary after cross-review *)

\* the place of the finding in the input review
InputIndex(fid) ==
    CHOOSE k \in 1..Len(crossIn.review.findings) : crossIn.review.findings[k].id = fid

\* two surviving findings are returned in the opposite of their input order
SurvivorsReordered ==
    \E k \in 1..Len(crossOut.findings) :
        \E m \in 1..Len(crossOut.findings) :
            /\ k < m
            /\ InputIndex(crossOut.findings[m].id) < InputIndex(crossOut.findings[k].id)

\* C21: the summary apply_cross_review returns starts with the input summary;
\* it has the drop clause exactly when a finding was dropped (naming how
\* many) and the re-ranked clause exactly when the relative order of the
\* survivors differs from the input; with neither the summary is unchanged
C21_SummaryClauses ==
    crossOut # NotRun =>
        /\ crossOut.summary.base = crossIn.review.summary
        /\ crossOut.summary.dropped
               = Len(crossIn.review.findings) - Len(crossOut.findings)
        /\ crossOut.summary.reranked <=> SurvivorsReordered

-----------------------------------------------------------------------------
(* GitHubClient: previous review comments and the review delta.  A text is a
   sequence of characters; each emoji is one character, named below.  A patch
   is held as the list patch.split("\n") of its lines, so the empty string is
   the list of one empty line, and None is a file without a patch. *)

RED_CIRCLE == "U+1F534"
YELLOW_CIRCLE == "U+1F7E1"
LIGHT_BULB == "U+1F4A1"
MEMO == "U+1F4DD"
CHECK_MARK == "U+2705"

\* client.py:22
_USER_FETCH_FAILED == "__FETCH_FAILED__"

\* client.py:331-333
AI_REVIEWER_USERS == {"github-actions[bot]"}

\* client.py:80-110: the allowed reviewer logins of a client whose
\* get_user().login gave `fetched` (or raised: _USER_FETCH_FAILED)
_get_allowed_users(fetched) ==
    IF fetched = _USER_FETCH_FAILED THEN AI_REVIEWER_USERS
    ELSE AI_REVIEWER_USERS \cup {fetched}

\* sub in text
Contains(text, sub) ==
    \E i \in 1..(Len(text) - Len(sub) + 1) :
        SubSeq(text, i, i + Len(sub) - 1) = sub

\* text.startswith(prefix)
StartsWith(text, prefix) ==
    Len(text) >= Len(prefix) /\ SubSeq(text, 1, Len(prefix)) = prefix

\* client.py:350, 791, 826, 874: the marker of a Resolved reply
RESOLVED_MARKER ==
    <<CHECK_MARK, " ", "*", "*", "R", "e", "s", "o", "l", "v", "e", "d", "*", "*">>

\* client.py:791: the body of the reply resolve_fixed_comments posts
RESOLVED_REPLY_BODY ==
    RESOLVED_MARKER \o <<" ", "-", " ", "T", "h", "i", "s", " ", "i", "s", "s",
                         "u", "e", " ", "h", "a", "s", " ", "b", "e", "e", "n",
                         " ", "a", "d", "d", "r", "e", "s", "s", "e", "d", " ",
                         "i", "n", " ", "t", "h", "e", " ", "l", "a", "t", "e",
                         "s", "t", " ", "c", "h", "a", "n", "g", "e", "s", ".">>

UNKNOWN_ISSUE ==
    <<"U", "n", "k", "n", "o", "w", "n", " ", "I", "s", "s", "u", "e">>

\* client.py:380-392: the severity of the first emoji of the map the body holds
SeverityOfBody(body) ==
    CASE Contains(body, <<RED_CIRCLE>>) -> S_critical
      [] Contains(body, <<YELLOW_CIRCLE>>) -> S_warning
      [] Contains(body, <<LIGHT_BULB>>) -> S_suggestion
      [] Contains(body, <<MEMO>>) -> S_nitpick
      [] OTHER -> <<"u", "n", "k", "n", "o", "w", "n">>

\* [^*]+ from position i: the length of the run of characters that are no star
RECURSIVE NonStarRun(_, _)
NonStarRun(text, i) ==
    IF i > Len(text) \/ text[i] = "*" THEN 0 ELSE 1 + NonStarRun(text, i + 1)

StarsAt(text, i) ==
    i >= 1 /\ i + 1 <= Len(text) /\ text[i] = "*" /\ text[i + 1] = "*"

\* \*\*([^*]+)\*\* matches at position i
TitleMatchAt(text, i) ==
    /\ StarsAt(text, i)
    /\ NonStarRun(text, i + 2) >= 1
    /\ StarsAt(text, i + 2 + NonStarRun(text, i + 2))

LeastOf(S) == CHOOSE i \in S : \A j \in S : i <= j

TitleMatches(text) == {i \in 1..Len(text) : TitleMatchAt(text, i)}

TitleGroupAt(text, i) == SubSeq(text, i + 2, i + 1 + NonStarRun(text, i + 2))

\* client.py:394-396: re.search(r"\*\*([^*]+)\*\*", body), group 1 of the
\* leftmost match
TitleOfBody(body) ==
    IF TitleMatches(body) = {} THEN UNKNOWN_ISSUE
    ELSE TitleGroupAt(body, LeastOf(TitleMatches(body)))

\* client.py:401: comment.line or comment.original_line or 0
LineOfComment(comment) ==
    IF comment.line # None /\ comment.line[1] # 0 THEN comment.line[1]
    ELSE IF comment.original_line # None /\ comment.original_line[1] # 0
         THEN comment.original_line[1]
         ELSE 0

\* client.py:369  _parse_review_comment
_parse_review_comment(comment) ==
    [id |-> comment.id,
     file_path |-> comment.path,
     line |-> LineOfComment(comment),
     title |-> TitleOfBody(comment.body),
     severity |-> SeverityOfBody(comment.body),
     body |-> comment.body,
     is_resolved |-> FALSE]

\* a comment parsed whoever wrote it
PreviousOfAnyAuthor(comment, allowed_users) ==
    IF Contains(comment.body, RESOLVED_MARKER) THEN <<>>
    ELSE <<_parse_review_comment(comment)>>

\* client.py:349-364: one comment of the loop, skipped or parsed
PreviousOf(comment, allowed_users) ==
    IF Contains(comment.body, RESOLVED_MARKER) THEN <<>>
    ELSE IF comment.login \notin allowed_users THEN <<>>
    ELSE <<_parse_review_comment(comment)>>

\* client.py:335  get_previous_review_comments
RECURSIVE get_previous_review_comments(_, _)
get_previous_review_comments(comments, allowed_users) ==
    IF comments = <<>> THEN <<>>
    ELSE PreviousOf(Head(comments), allowed_users)
         \o get_previous_review_comments(Tail(comments), allowed_users)

\* the title as it is written, neither lowercased nor stripped
TitleAsWritten(title) == title

\* client.py:485  _normalize_title
_normalize_title(title) == Strip(Lower(title))

\* client.py:428, 435: the key of a previous comment and of a finding
CommentKey(comment) ==
    <<comment.file_path, comment.line, _normalize_title(comment.title)>>

FindingKey(finding) ==
    <<finding.file_path, finding.line_start, _normalize_title(finding.title)>>

\* client.py:425-429: previous_lookup[key], the last comment stored under it
RECURSIVE previous_lookup(_, _)
previous_lookup(previous_comments, key) ==
    IF previous_comments = <<>> THEN None
    ELSE IF CommentKey(previous_comments[Len(previous_comments)]) = key
         THEN <<previous_comments[Len(previous_comments)]>>
         ELSE previous_lookup(SubSeq(previous_comments, 1,
                                     Len(previous_comments) - 1), key)

InLookup(previous_comments, finding) ==
    previous_lookup(previous_comments, FindingKey(finding)) # None

\* client.py:434-443: the findings whose key is (open) or is not (new) in the
\* lookup, in input order
RECURSIVE FindingsByLookup(_, _, _)
FindingsByLookup(findings, previous_comments, wanted) ==
    IF findings = <<>> THEN <<>>
    ELSE (IF InLookup(previous_comments, Head(findings)) = wanted
          THEN <<Head(findings)>> ELSE <<>>)
         \o FindingsByLookup(Tail(findings), previous_comments, wanted)

\* client.py:432-440: matched_previous, the ids of the looked-up comments
matched_previous(findings, previous_comments) ==
    {previous_lookup(previous_comments, FindingKey(findings[k]))[1].id :
        k \in {j \in 1..Len(findings) :
                  InLookup(previous_comments, findings[j])}}

\* f.patch is truthy: neither None nor the empty string
PatchPresent(patch) == patch # None /\ patch # <<<<>>>>

LeastPlusDigits(line) ==
    LeastOf({i \in 1..(Len(line) - 1) : line[i] = "+" /\ line[i + 1] \in DigitChars})

HasPlusDigits(line) ==
    \E i \in 1..(Len(line) - 1) : line[i] = "+" /\ line[i + 1] \in DigitChars

RECURSIVE DigitRun(_, _)
DigitRun(line, i) ==
    IF i > Len(line) \/ line[i] \notin DigitChars THEN 0
    ELSE 1 + DigitRun(line, i + 1)

DigitsFrom(line, i) == SubSeq(line, i, i + DigitRun(line, i) - 1)

\* client.py:512-517: re.search(r"\+(\d+)", line) sets current_line when it
\* matches
HunkStart(line, current_line) ==
    IF HasPlusDigits(line)
    THEN DecimalOf(DigitsFrom(line, LeastPlusDigits(line) + 1))
    ELSE current_line

\* client.py:510-531: the loop over the lines of the patch
RECURSIVE ModifiedFrom(_, _, _)
ModifiedFrom(lines, current_line, modified) ==
    IF lines = <<>> THEN modified
    ELSE IF StartsWith(Head(lines), <<"@", "@">>)
    THEN ModifiedFrom(Tail(lines), HunkStart(Head(lines), current_line), modified)
    ELSE IF StartsWith(Head(lines), <<"+">>)
            /\ ~StartsWith(Head(lines), <<"+", "+", "+">>)
    THEN ModifiedFrom(Tail(lines), current_line + 1, modified \cup {current_line})
    ELSE IF StartsWith(Head(lines), <<"-">>)
            /\ ~StartsWith(Head(lines), <<"-", "-", "-">>)
    THEN ModifiedFrom(Tail(lines), current_line, modified \cup {current_line})
    ELSE IF ~StartsWith(Head(lines), <<"\\">>)
    THEN ModifiedFrom(Tail(lines), current_line + 1, modified)
    ELSE ModifiedFrom(Tail(lines), current_line, modified)

\* client.py:496  _parse_modified_lines
_parse_modified_lines(patch) ==
    IF ~PatchPresent(patch) THEN {} ELSE ModifiedFrom(patch, 0, {})

\* client.py:539 (default of the parameter)
DEFAULT_TOLERANCE == 3

Abs(n) == IF n < 0 THEN -n ELSE n

\* the line itself is a modified line, whatever the tolerance
LineIsModified(line, modified_lines, tolerance) == line \in modified_lines

\* client.py:535  _is_line_in_modified_range
_is_line_in_modified_range(line, modified_lines, tolerance) ==
    \E mod_line \in modified_lines : Abs(line - mod_line) <= tolerance

\* client.py:452-453: changed_files
changed_files(pr_files) == {pr_files[k].filename : k \in 1..Len(pr_files)}

\* client.py:455-459: file_modified_lines holds the file
HasModifiedLines(pr_files, file_path) ==
    \E k \in 1..Len(pr_files) :
        pr_files[k].filename = file_path /\ PatchPresent(pr_files[k].patch)

\* client.py:455-459: file_modified_lines[file_path], of the last such file
LastFileNamed(pr_files, file_path) ==
    pr_files[CHOOSE k \in 1..Len(pr_files) :
                /\ pr_files[k].filename = file_path
                /\ PatchPresent(pr_files[k].patch)
                /\ \A m \in (k + 1)..Len(pr_files) :
                      ~(pr_files[m].filename = file_path
                        /\ PatchPresent(pr_files[m].patch))]

file_modified_lines(pr_files, file_path) ==
    _parse_modified_lines(LastFileNamed(pr_files, file_path).patch)

\* client.py:463-475: the evidence that an unmatched comment was fixed
ConfirmedFixed(comment, pr_files) ==
    IF comment.file_path \notin changed_files(pr_files) THEN TRUE
    ELSE IF HasModifiedLines(pr_files, comment.file_path)
    THEN _is_line_in_modified_range(comment.line,
             file_modified_lines(pr_files, comment.file_path), DEFAULT_TOLERANCE)
    ELSE FALSE

\* client.py:461-475: fixed_findings, in the order of the previous comments
RECURSIVE FixedAmong(_, _, _)
FixedAmong(previous_comments, matched, pr_files) ==
    IF previous_comments = <<>> THEN <<>>
    ELSE (IF Head(previous_comments).id \notin matched
             /\ ConfirmedFixed(Head(previous_comments), pr_files)
          THEN <<Head(previous_comments)>> ELSE <<>>)
         \o FixedAmong(Tail(previous_comments), matched, pr_files)

\* client.py:423-483: the ReviewDelta
DeltaOf(previous_comments, current_findings, pr_files) ==
    [status |-> "done",
     new_findings |-> FindingsByLookup(current_findings, previous_comments, FALSE),
     fixed_findings |->
         FixedAmong(previous_comments,
                    matched_previous(current_findings, previous_comments),
                    pr_files),
     open_findings |-> FindingsByLookup(current_findings, previous_comments, TRUE),
     previous_comments |-> previous_comments]

\* client.py:406  compute_review_delta
compute_review_delta(comments, allowed_users, current_findings, pr_files) ==
    DeltaOf(get_previous_review_comments(comments, allowed_users),
            current_findings, pr_files)

\* client.py:54-58  ReviewDelta.all_issues_resolved
all_issues_resolved(delta) ==
    Len(delta.open_findings) = 0 /\ Len(delta.new_findings) = 0

-----------------------------------------------------------------------------
(* the inputs of compute_review_delta and of _parse_modified_lines *)

MaxPrevComments == 2
MaxDeltaFindings == 2
MaxPatchLines == 3

T_Bug == <<"B", "u", "g">>
T_bug_padded == <<" ", "b", "u", "g">>
T_Leak == <<"L", "e", "a", "k">>

P_c == <<"c">>

\* client.py:303: the body post_inline_comments writes for a finding
InlineCommentBody(emoji, title, description) ==
    <<emoji, " ", "*", "*">> \o title \o <<"*", "*", "\n", "\n">> \o description

\* a review comment as PyGithub returns it
ReviewComment(id, login, body, path, line, reply_to) ==
    [id |-> id, login |-> login, body |-> body, path |-> path,
     line |-> line, original_line |-> line, in_reply_to_id |-> reply_to]

DeltaFinding(file_path, line_start, title) ==
    [file_path |-> file_path, line_start |-> line_start, title |-> title]

PrFile(filename, patch) == [filename |-> filename, patch |-> patch]

\* "@@ -2 +2 @@", "-x", "+y": line 2 of the new file is modified
PATCH_LINE_2 ==
    << <<"@", "@", " ", "-", "2", " ", "+", "2", " ", "@", "@">>,
       <<"-", "x">>, <<"+", "y">> >>

CommentPlaces == {<<P_a, 5>>, <<P_a, 6>>}

CommentTitles == {T_Bug, T_bug_padded, T_Leak}

FindingPlaces == {<<P_a, 5>>, <<P_a, 6>>}

FindingTitles == {T_Bug, T_Leak}

\* the file a is in the diff with a patch, in the diff without a patch, or
\* not in the diff
FileLists ==
    {<<PrFile(P_a, PATCH_LINE_2)>>,
     <<PrFile(P_a, None)>>,
     <<PrFile(P_c, PATCH_LINE_2)>>}

BotComment(k, place, title) ==
    ReviewComment(100 + k, "github-actions[bot]",
                  InlineCommentBody(YELLOW_CIRCLE, title, <<"d">>),
                  place[1], <<place[2]>>, None)

DeltaInput(places, titles, fplaces, ftitles, files) ==
    [comments |-> [k \in DOMAIN places |-> BotComment(k, places[k], titles[k])],
     fetched |-> "ai-reviewer",
     findings |-> [k \in DOMAIN fplaces |->
                      DeltaFinding(fplaces[k][1], fplaces[k][2], ftitles[k])],
     files |-> files]

InitDelta ==
    /\ \E n \in 0..MaxPrevComments :
          \E places \in [1..n -> CommentPlaces] :
              \E titles \in [1..n -> CommentTitles] :
                  \E m \in 0..MaxDeltaFindings :
                      \E fplaces \in [1..m -> FindingPlaces] :
                          \E ftitles \in [1..m -> FindingTitles] :
                              \E files \in FileLists :
                                  deltaIn = DeltaInput(places, titles, fplaces,
                                                       ftitles, files)
    /\ deltaOut = NotRun
    /\ patchIn = NotRun
    /\ patchOut = NotRun
    /\ IdleBut("delta")

\* client.py:406: compute_review_delta is called
ComputeReviewDelta ==
    /\ deltaIn # NotRun
    /\ deltaOut = NotRun
    /\ deltaOut' = compute_review_delta(deltaIn.comments,
                                        _get_allowed_users(deltaIn.fetched),
                                        deltaIn.findings, deltaIn.files)
    /\ UNCHANGED <<deltaIn, patchIn, patchOut, notDelta>>

NextDelta == ComputeReviewDelta

SpecDelta == InitDelta /\ [][NextDelta]_vars

NO_NEWLINE_MARKER ==
    <<"\\", " ", "N", "o", " ", "n", "e", "w", "l", "i", "n", "e", " ", "a",
      "t", " ", "e", "n", "d", " ", "o", "f", " ", "f", "i", "l", "e">>

\* hunk headers, added, removed and context lines, the marker, and added and
\* removed lines whose own text starts with ++ or --
PatchLines ==
    {<<"@", "@", " ", "-", "1", " ", "+", "2", " ", "@", "@">>,
     <<"@", "@", " ", "-", "7", " ", "+", "1", "2", " ", "@", "@">>,
     <<"+", "x">>, <<"-", "x">>, <<" ", "x">>, NO_NEWLINE_MARKER,
     <<"+", "+", "+", "i">>, <<"-", "-", "-", "i">>}

InitPatch ==
    /\ \E n \in 1..MaxPatchLines :
          \E lines \in [1..n -> PatchLines] : patchIn = [lines |-> lines]
    /\ patchOut = NotRun
    /\ deltaIn = NotRun
    /\ deltaOut = NotRun
    /\ IdleBut("delta")

\* client.py:496: _parse_modified_lines is called
ParseModifiedLines ==
    /\ patchIn # NotRun
    /\ patchOut = NotRun
    /\ patchOut' = [status |-> "done",
                    modified |-> _parse_modified_lines(patchIn.lines)]
    /\ UNCHANGED <<patchIn, deltaIn, deltaOut, notDelta>>

NextPatch == ParseModifiedLines

SpecPatch == InitPatch /\ [][NextPatch]_vars

-----------------------------------------------------------------------------
(* C22: open and new findings *)

DeltaDone == deltaOut # NotRun

\* the previous comment and the finding have the same file, line and
\* lowercased, stripped title
SameKey(comment, finding) ==
    /\ comment.file_path = finding.file_path
    /\ comment.line = finding.line_start
    /\ Strip(Lower(comment.title)) = Strip(Lower(finding.title))

\* some previous comment has the key of the finding
KnownBefore(finding) ==
    \E k \in 1..Len(deltaOut.previous_comments) :
        SameKey(deltaOut.previous_comments[k], finding)

\* the findings that are (or are not) known before, in input order
RECURSIVE InOrderWhere(_, _)
InOrderWhere(findings, known) ==
    IF findings = <<>> THEN <<>>
    ELSE (IF KnownBefore(Head(findings)) = known THEN <<Head(findings)>> ELSE <<>>)
         \o InOrderWhere(Tail(findings), known)

\* C22: compute_review_delta puts every current finding in exactly one of
\* open_findings and new_findings, in input order: in open_findings when some
\* previous comment has its (file_path, line, lowercased and stripped title)
\* key, in new_findings otherwise; all_issues_resolved holds exactly when
\* there is no current finding.
C22_OpenOrNew ==
    DeltaDone =>
        /\ deltaOut.open_findings = InOrderWhere(deltaIn.findings, TRUE)
        /\ deltaOut.new_findings = InOrderWhere(deltaIn.findings, FALSE)
        /\ all_issues_resolved(deltaOut) <=> deltaIn.findings = <<>>

\* a finding written "Bug" is open because of a comment titled " bug", and
\* another finding is new
C22_Witness ==
    /\ DeltaDone
    /\ Len(deltaOut.open_findings) = 1
    /\ Len(deltaOut.new_findings) = 1
    /\ deltaOut.open_findings[1].title = T_Bug
    /\ \A k \in 1..Len(deltaOut.previous_comments) :
          deltaOut.previous_comments[k].title = T_bug_padded

-----------------------------------------------------------------------------
(* C23, C24, C29: fixed findings *)

\* no current finding has the key of the previous comment
Unmatched(comment) ==
    \A k \in 1..Len(deltaIn.findings) : ~SameKey(comment, deltaIn.findings[k])

IsFixed(comment) ==
    \E k \in 1..Len(deltaOut.fixed_findings) :
        deltaOut.fixed_findings[k].id = comment.id

FileInDiff(file_path) ==
    \E k \in 1..Len(deltaIn.files) : deltaIn.files[k].filename = file_path

FileWithoutPatch(file_path) ==
    \E k \in 1..Len(deltaIn.files) :
        deltaIn.files[k].filename = file_path /\ deltaIn.files[k].patch = None

\* the lines the patches of the file modify
ModifiedLinesOf(file_path) ==
    UNION {_parse_modified_lines(deltaIn.files[k].patch) :
              k \in {j \in 1..Len(deltaIn.files) :
                        deltaIn.files[j].filename = file_path}}

FileWithPatch(file_path) ==
    \E k \in 1..Len(deltaIn.files) :
        /\ deltaIn.files[k].filename = file_path
        /\ deltaIn.files[k].patch # None
        /\ deltaIn.files[k].patch # <<<<>>>>

NearModifiedLine(comment) ==
    \E m \in ModifiedLinesOf(comment.file_path) :
        comment.line - m <= 3 /\ m - comment.line <= 3

PreviousComments == {deltaOut.previous_comments[k] :
                        k \in 1..Len(deltaOut.previous_comments)}

\* C23: an unmatched previous comment is fixed whenever its file is not in
\* the diff's file list
C23_FixedWhenFileGone ==
    DeltaDone =>
        \A comment \in PreviousComments :
            (Unmatched(comment) /\ ~FileInDiff(comment.file_path))
                => IsFixed(comment)

\* C23: an unmatched previous comment is fixed whenever its file is not in
\* the diff's file list, and also whenever the file is in the list without a
\* retrievable patch (patch None)
C23_FixedWhenFileGoneOrNoPatch ==
    DeltaDone =>
        \A comment \in PreviousComments :
            (Unmatched(comment)
             /\ (~FileInDiff(comment.file_path)
                 \/ FileWithoutPatch(comment.file_path)))
                => IsFixed(comment)

\* C24: an unmatched previous comment whose file is in the diff with a patch
\* is fixed exactly when its line is within 3 lines of a modified line; in an
\* untouched region it is never in fixed_findings
C24_FixedIffNearModified ==
    DeltaDone =>
        \A comment \in PreviousComments :
            (Unmatched(comment) /\ FileWithPatch(comment.file_path))
                => (IsFixed(comment) <=> NearModifiedLine(comment))

\* line 5 is fixed by a change of line 2, line 6 is not
C24_Witness ==
    /\ DeltaDone
    /\ \E c1, c2 \in PreviousComments :
          /\ c1.file_path = P_a /\ c2.file_path = P_a
          /\ c1.line = 5 /\ c2.line = 6
          /\ Unmatched(c1) /\ Unmatched(c2)
          /\ FileWithPatch(P_a)
          /\ IsFixed(c1) /\ ~IsFixed(c2)

\* C29: compute_review_delta never classifies as fixed a previous comment
\* whose key is the key of a current finding, also when several previous
\* comments share that key
C29_MatchedNeverFixed ==
    DeltaDone =>
        \A comment \in PreviousComments :
            ~Unmatched(comment) => ~IsFixed(comment)

-----------------------------------------------------------------------------
(* C28: the lines a patch modifies.  In a hunk of a unified diff the first
   character of a line says what the line is. *)

IsHunkHeader(line) == Len(line) >= 2 /\ line[1] = "@" /\ line[2] = "@"

IsAddedLine(line) == line # <<>> /\ line[1] = "+"

IsRemovedLine(line) == line # <<>> /\ line[1] = "-"

IsNoNewlineMarker(line) == line # <<>> /\ line[1] = "\\"

\* the lines marked from the counter on, by the rules of the claim
RECURSIVE MarkedLines(_, _, _)
MarkedLines(lines, counter, marked) ==
    IF lines = <<>> THEN marked
    ELSE IF IsHunkHeader(Head(lines))
    THEN MarkedLines(Tail(lines), HunkStart(Head(lines), counter), marked)
    ELSE IF IsAddedLine(Head(lines))
    THEN MarkedLines(Tail(lines), counter + 1, marked \cup {counter})
    ELSE IF IsRemovedLine(Head(lines))
    THEN MarkedLines(Tail(lines), counter, marked \cup {counter})
    ELSE IF IsNoNewlineMarker(Head(lines))
    THEN MarkedLines(Tail(lines), counter, marked)
    ELSE MarkedLines(Tail(lines), counter + 1, marked)

PatchParsed == patchOut # NotRun

StartsWithHunkHeader == IsHunkHeader(patchIn.lines[1])

\* the text of the added or removed line itself starts with ++ or --
HasDoubledSign(line) ==
    StartsWith(line, <<"+", "+", "+">>) \/ StartsWith(line, <<"-", "-", "-">>)

\* C28: _parse_modified_lines keeps a new-file line counter that each hunk
\* header resets to its new-file start; an added line marks the counter and
\* increments it, a removed line marks it without incrementing, a context
\* line increments without marking, a "\ No newline at end of file" line
\* changes nothing; the result is exactly the set of marked positions.
C28_MarkedLines ==
    (PatchParsed /\ StartsWithHunkHeader) =>
        patchOut.modified = MarkedLines(patchIn.lines, 0, {})

\* C28 for patches none of whose added or removed lines has a text that starts
\* with ++ or --
C28_MarkedLinesPlainText ==
    (PatchParsed /\ StartsWithHunkHeader
     /\ \A k \in 1..Len(patchIn.lines) : ~HasDoubledSign(patchIn.lines[k])) =>
        patchOut.modified = MarkedLines(patchIn.lines, 0, {})

-----------------------------------------------------------------------------
(* The publish paths: review_pr_async (cli.py) and default_review_handler
   (webhook.py).  Each awaits review_pr_with_cursor_agent and then runs
   synchronous GitHub calls only, so what follows the await is one step of the
   event loop.  The comments of the pull request are numbered in the order
   GitHub received them. *)

INFORMATION == "U+2139"

\* client.py:299: review.findings[:10]
INLINE_COMMENT_LIMIT == 10

\* models/review.py:81  ConsolidatedReview.all_agents_failed
all_agents_failed(review) ==
    Len(review.failed_agents) = review.agent_count /\ review.agent_count > 0

\* the id GitHub gives the next comment of the pull request
NextCommentId(comments) == 101 + Len(comments)

\* client.py:302-307: severity_emoji
EmojiOf(severity) ==
    CASE severity = "critical" -> RED_CIRCLE
      [] severity = "warning" -> YELLOW_CIRCLE
      [] severity = "suggestion" -> LIGHT_BULB
      [] severity = "nitpick" -> MEMO
      [] OTHER -> INFORMATION

\* review.py:546: the description of a ConsolidatedFinding is its first raw
\* finding's
DescriptionOf(finding) == finding.cluster[1].finding.description

\* client.py:309-319: the comment create_review_comment makes for a finding
InlineComment(id, finding, login) ==
    ReviewComment(id, login,
                  InlineCommentBody(EmojiOf(finding.severity), finding.title,
                                    DescriptionOf(finding)),
                  finding.file_path, <<finding.line_start>>, None)

\* client.py:299-326: the loop of post_inline_comments over the findings
RECURSIVE InlinePosted(_, _, _)
InlinePosted(comments, findings, login) ==
    IF findings = <<>> THEN comments
    ELSE InlinePosted(Append(comments,
                             InlineComment(NextCommentId(comments),
                                           Head(findings), login)),
                      Tail(findings), login)

\* client.py:281  post_inline_comments: the comments of the pull request after
\* it
post_inline_comments(comments, findings, login) ==
    InlinePosted(comments,
                 SubSeq(findings, 1, Min(Len(findings), INLINE_COMMENT_LIMIT)),
                 login)

\* client.py:824-845: the comment is a Resolved reply of an allowed user
IsResolvedReply(comment, allowed_users) ==
    /\ Contains(comment.body, RESOLVED_MARKER)
    /\ comment.in_reply_to_id # None
    /\ comment.in_reply_to_id[1] # 0
    /\ comment.login \in allowed_users

\* client.py:810  _get_resolved_comment_ids
_get_resolved_comment_ids(raw_comments, allowed_users) ==
    {raw_comments[k].in_reply_to_id[1] :
        k \in {j \in 1..Len(raw_comments) :
                  IsResolvedReply(raw_comments[j], allowed_users)}}

\* client.py:851  _comment_already_has_resolved_reply
_comment_already_has_resolved_reply(comment_id, raw_comments, allowed_users) ==
    \E k \in 1..Len(raw_comments) :
        /\ raw_comments[k].in_reply_to_id # None
        /\ raw_comments[k].in_reply_to_id[1] = comment_id
        /\ Contains(raw_comments[k].body, RESOLVED_MARKER)
        /\ raw_comments[k].login \in allowed_users

\* every fixed comment gets a reply, whatever replies exist
AllFixed(fixed_findings, raw_comments, allowed_users) ==
    fixed_findings

\* client.py:770-777: the fixed comments the loop does not skip
RECURSIVE ToResolve(_, _, _)
ToResolve(fixed_findings, raw_comments, allowed_users) ==
    IF fixed_findings = <<>> THEN <<>>
    ELSE (IF Head(fixed_findings).id
                 \in _get_resolved_comment_ids(raw_comments, allowed_users)
             \/ _comment_already_has_resolved_reply(Head(fixed_findings).id,
                                                    raw_comments, allowed_users)
          THEN <<>> ELSE <<Head(fixed_findings)>>)
         \o ToResolve(Tail(fixed_findings), raw_comments, allowed_users)

\* client.py:789-792: the replies create_review_comment_reply makes
ResolvedReplies(to_resolve, comments, login) ==
    [k \in 1..Len(to_resolve) |->
        ReviewComment(NextCommentId(comments) + k - 1, login,
                      RESOLVED_REPLY_BODY, to_resolve[k].file_path,
                      <<to_resolve[k].line>>, <<to_resolve[k].id>>)]

\* client.py:740  resolve_fixed_comments: the replies it posts; resolved_count
\* is their number
resolve_fixed_comments(comments, delta, allowed_users, login) ==
    ResolvedReplies(ToResolve(delta.fixed_findings, comments, allowed_users),
                    comments, login)

\* cli.py:219-221, webhook.py:168: the findings that get an inline comment
NewFindingsToPost(review, delta) ==
    IF delta.previous_comments # <<>> THEN delta.new_findings
    ELSE review.findings

\* cli.py:187-246, webhook.py:162-205: what a path does with a review it
\* publishes: the delta, the Resolved replies, the inline comments
Published(comments, review, delta, replies, login) ==
    [delta |-> delta,
     raw_comments |-> comments,
     posted_review |-> TRUE,
     replies |-> replies,
     resolved_count |-> Len(replies),
     inline |-> NewFindingsToPost(review, delta),
     comments |-> post_inline_comments(comments \o replies,
                                       NewFindingsToPost(review, delta), login)]

PublishedWithDelta(comments, review, delta, env) ==
    Published(comments, review, delta,
              resolve_fixed_comments(comments, delta,
                                     _get_allowed_users(env.fetched), env.me),
              env.me)

Publish(comments, review, env) ==
    PublishedWithDelta(comments, review,
                       compute_review_delta(comments,
                                            _get_allowed_users(env.fetched),
                                            review.findings, env.files),
                       env)

NothingPublished ==
    [delta |-> NotRun, raw_comments |-> <<>>, posted_review |-> FALSE, replies |-> <<>>,
     resolved_count |-> 0, inline |-> <<>>, comments |-> <<>>]

HandlerIdle ==
    [pc |-> "idle", path |-> "none", runs |-> <<>>, review |-> NotRun,
     did |-> NothingPublished]

\* review.py:640  review_pr_with_cursor_agent: the agents run and their
\* findings aggregated (the cross-review round changes findings and summary
\* only)
ReviewOf(runs) ==
    IF CursorRunAgents(runs).status = "raised"
    THEN [status |-> "raised"]
    ELSE aggregate_findings(CursorRunAgents(runs).value)

\* cli.py:133: review_pr_async starts and awaits the review
CliReviewStarts ==
    \E h \in DOMAIN handlers :
        /\ handlers[h].pc = "idle"
        /\ handlers' = [handlers EXCEPT ![h].pc = "reviewing", ![h].path = "cli"]
        /\ UNCHANGED <<flowEnv, prComments, prReviews, notFlow>>

\* webhook.py:302, 233, 150: the endpoint creates a task for the event; the
\* task awaits the review
WebhookEvent ==
    \E h \in DOMAIN handlers :
        /\ handlers[h].pc = "idle"
        /\ handlers' = [handlers EXCEPT ![h].pc = "reviewing", ![h].path = "webhook"]
        /\ UNCHANGED <<flowEnv, prComments, prReviews, notFlow>>

Settled(h, runs, review, did) ==
    handlers' = [handlers EXCEPT ![h].pc = "done", ![h].runs = runs,
                                 ![h].review = review, ![h].did = did]

\* cli.py:142-144, webhook.py:207-208: the review raised; the path publishes
\* nothing
ReviewRaises ==
    \E h \in DOMAIN handlers :
        /\ handlers[h].pc = "reviewing"
        /\ \E runs \in flowEnv.runs :
              \E review \in {ReviewOf(runs)} :
                  /\ review.status = "raised"
                  /\ Settled(h, runs, review, NothingPublished)
        /\ UNCHANGED <<flowEnv, prComments, prReviews, notFlow>>

\* cli.py:147-156, webhook.py:158-160: review.all_agents_failed; the path
\* returns before it publishes
AllAgentsFailed ==
    \E h \in DOMAIN handlers :
        /\ handlers[h].pc = "reviewing"
        /\ \E runs \in flowEnv.runs :
              \E review \in {ReviewOf(runs)} :
                  /\ review.status # "raised"
                  /\ all_agents_failed(review)
                  /\ Settled(h, runs, review, NothingPublished)
        /\ UNCHANGED <<flowEnv, prComments, prReviews, notFlow>>

\* cli.py:176-246, webhook.py:162-205: the delta is computed, the review body
\* posted, the fixed comments resolved, the new findings posted inline
PublishReview ==
    \E h \in DOMAIN handlers :
        /\ handlers[h].pc = "reviewing"
        /\ \E runs \in flowEnv.runs :
              \E review \in {ReviewOf(runs)} :
                  /\ review.status # "raised"
                  /\ ~all_agents_failed(review)
                  /\ \E did \in {Publish(prComments, review, flowEnv)} :
                         /\ Settled(h, runs, review, did)
                         /\ prComments' = did.comments
        /\ prReviews' = prReviews + 1
        /\ UNCHANGED <<flowEnv, notFlow>>

\* the runs of the webhook server
NextWebhook ==
    \/ WebhookEvent
    \/ ReviewRaises
    \/ AllAgentsFailed
    \/ PublishReview

\* the runs of either path
NextFlow == CliReviewStarts \/ NextWebhook

-----------------------------------------------------------------------------
(* the pull requests, reviewers and agent outcomes of the publish paths *)

MaxHandlers == 2
MaxFlowComments == 2

\* the login of the token the reviewer runs with, a person and a bot that is
\* no reviewer
ME == "ai-reviewer"
HUMAN == "alice"
OTHER_BOT == "dependabot[bot]"

FlowLogins == {ME, "github-actions[bot]", HUMAN, OTHER_BOT}

T_star == <<"a", "*", "b">>

F_Bug == RawFinding(P_a, S_logic, <<5, None>>, T_Bug, <<"d">>, S_warning, 80)
F_Star == RawFinding(P_a, S_logic, <<5, None>>, T_star, <<"d">>, S_warning, 80)

\* a comment in the reviewer's format written by login: the first of the pull
\* request is on line 5 of a, a later one on line 6
FormattedComment(k, login) ==
    ReviewComment(100 + k, login,
                  InlineCommentBody(YELLOW_CIRCLE,
                                    IF k = 1 THEN T_Bug ELSE T_Leak, <<"d">>),
                  P_a, <<4 + k>>, None)

\* a Resolved reply to the first comment written by login
ResolvedReply(k, login) ==
    ReviewComment(100 + k, login, RESOLVED_REPLY_BODY, P_a, <<5>>, <<101>>)

\* the comments of a pull request: n in the reviewer's format and, for the
\* lists that end with one, a Resolved reply to the first of them
CommentLists(n, logins, repliers) ==
    {[k \in 1..n |-> FormattedComment(k, w[k])] : w \in [1..n -> logins]}
    \cup {[k \in 1..n + 1 |->
              IF k <= n THEN FormattedComment(k, w[k])
              ELSE ResolvedReply(k, r)] :
             w \in [1..n -> logins], r \in IF n >= 1 THEN repliers ELSE {}}

CommentsUpTo(max, logins, repliers) ==
    UNION {CommentLists(n, logins, repliers) : n \in 0..max}

\* line 2 of a is modified, or a is no longer in the diff
FlowFiles == {<<PrFile(P_a, PATCH_LINE_2)>>, <<PrFile(P_c, PATCH_LINE_2)>>}

AgentOk(a, findings, summary) ==
    [agent_id |-> a, status |-> "ok", findings |-> findings, summary |-> summary]

AgentError(a) ==
    [agent_id |-> a, status |-> "error", findings |-> <<>>, summary |-> SUMMARY_OK]

\* one agent that reports nothing, the finding Bug or a finding whose title
\* has a star; one agent that fails; two agents that fail
FlowRuns ==
    {<<AgentOk(1, <<>>, SUMMARY_OK)>>, <<AgentOk(1, <<F_Bug>>, SUMMARY_OK)>>,
     <<AgentOk(1, <<F_Star>>, SUMMARY_OK)>>,
     <<AgentError(1)>>, <<AgentError(1), AgentError(2)>>}

AgentOutcomes(a) ==
    {AgentError(a)}
    \cup {AgentOk(a, f, sm) : f \in {<<>>, <<F_Bug>>},
                              sm \in {SUMMARY_OK, SUMMARY_MENTIONS_401}}

\* one or two agents, each failing or returning, with or without a finding,
\* a summary of its own
PublishRuns ==
    {<<o>> : o \in AgentOutcomes(1)}
    \cup {<<o1, o2>> : o1 \in AgentOutcomes(1), o2 \in AgentOutcomes(2)}

FlowEnv(fetched, files, runs) ==
    [me |-> ME, fetched |-> fetched, files |-> files, runs |-> runs]

InitHandlers ==
    /\ prReviews = 0
    /\ handlers = [h \in 1..MaxHandlers |-> HandlerIdle]
    /\ IdleBut("flow")

InitFlow ==
    /\ \E fetched \in {ME, _USER_FETCH_FAILED} :
          \E files \in FlowFiles :
              flowEnv = FlowEnv(fetched, files, FlowRuns)
    /\ prComments \in CommentsUpTo(MaxFlowComments - 1, FlowLogins, {ME, HUMAN})
    /\ InitHandlers

SpecFlow == InitFlow /\ [][NextWebhook]_vars

InitPublish ==
    /\ flowEnv = FlowEnv(ME, <<PrFile(P_a, PATCH_LINE_2)>>, PublishRuns)
    /\ prComments \in CommentsUpTo(MaxFlowComments - 1, {ME}, {})
    /\ InitHandlers

SpecPublish == InitPublish /\ [][NextFlow]_vars

-----------------------------------------------------------------------------
(* C27: whose comments the flow takes for its own *)

HasPublished(h) == handlers[h].pc = "done" /\ handlers[h].did.posted_review

\* the authenticated user or a known bot login
AllowedIdentity(login) == login = flowEnv.me \/ login \in AI_REVIEWER_USERS

\* the comment of the pull request with the given id
CommentById(id) == prComments[id - 100]

IsReviewersOwn(id) ==
    /\ id - 100 \in DOMAIN prComments
    /\ AllowedIdentity(CommentById(id).login)
    /\ ~Contains(CommentById(id).body, RESOLVED_MARKER)

IdsOf(records) == {records[k].id : k \in DOMAIN records}

\* the ids the Resolved replies a path posted answer
RepliedTo(h) ==
    {handlers[h].did.replies[k].in_reply_to_id[1] :
        k \in DOMAIN handlers[h].did.replies}

\* C27: every PreviousComment of a published run is a comment of an allowed
\* reviewer identity that is no Resolved reply; so is every comment the run
\* classified as fixed and every comment it answered with a Resolved reply
C27_OnlyOwnComments ==
    \A h \in DOMAIN handlers :
        HasPublished(h) =>
            /\ \A id \in IdsOf(handlers[h].did.delta.previous_comments) :
                   IsReviewersOwn(id)
            /\ \A id \in IdsOf(handlers[h].did.delta.fixed_findings) :
                   IsReviewersOwn(id)
            /\ \A id \in RepliedTo(h) : IsReviewersOwn(id)

\* the first comment is a person's in the reviewer's format; a run answered
\* another comment with a Resolved reply and none answered the person's
C27_Witness ==
    /\ Len(prComments) >= 1
    /\ prComments[1].login = HUMAN
    /\ TitleOfBody(prComments[1].body) = T_Bug
    /\ \E h \in DOMAIN handlers : HasPublished(h) /\ RepliedTo(h) # {}
    /\ \A h \in DOMAIN handlers : HasPublished(h) => 101 \notin RepliedTo(h)

-----------------------------------------------------------------------------
(* C25: the Resolved replies of repeated runs *)

\* the logins the client of this pull request takes for reviewers: the known
\* bots and, when get_user() gave it, the authenticated login
AllowedReviewer(login) ==
    \/ login \in AI_REVIEWER_USERS
    \/ flowEnv.fetched # _USER_FETCH_FAILED /\ login = flowEnv.fetched

\* comments[k] is a Resolved reply of an allowed reviewer to the comment id
ResolvedReplyTo(comments, k, id) ==
    /\ Contains(comments[k].body, RESOLVED_MARKER)
    /\ AllowedReviewer(comments[k].login)
    /\ comments[k].in_reply_to_id = <<id>>

ResolvedRepliesTo(comments, id) ==
    {k \in DOMAIN comments : ResolvedReplyTo(comments, k, id)}

FixedIds(h) == IdsOf(handlers[h].did.delta.fixed_findings)

-----------------------------------------------------------------------------
(* C26: what the two publish paths do when agents fail *)

Settles(h) == handlers[h].pc = "reviewing" /\ handlers'[h].pc = "done"

\* the agents of a review whose run did not return
ActuallyFailed(runs) == {runs[k].agent_id : k \in {j \in DOMAIN runs : runs[j].status # "ok"}}

EveryAgentFailed(runs) == \A k \in DOMAIN runs : runs[k].status # "ok"

SomeButNotAllFailed(runs) == ActuallyFailed(runs) # {} /\ ~EveryAgentFailed(runs)

NamesExactly(failed_agents, agents) ==
    /\ {failed_agents[k] : k \in DOMAIN failed_agents} = agents
    /\ Len(failed_agents) = Cardinality(agents)

\* on either path a review whose every agent failed posts no review body and
\* leaves the comments of the pull request as they are
C26_NothingPublishedWhenAllFailed ==
    [][\A h \in DOMAIN handlers :
          Settles(h) /\ EveryAgentFailed(handlers'[h].runs)
              => /\ prReviews' = prReviews
                 /\ prComments' = prComments
                 /\ handlers'[h].did = NothingPublished]_vars

\* C26: on either path a review whose every agent failed publishes nothing,
\* and a review of which some but not all agents failed is published with
\* failed_agents naming exactly the agents that failed
C26_PublishUnlessAllFailed ==
    \A h \in DOMAIN handlers :
        handlers[h].pc = "done" =>
            /\ EveryAgentFailed(handlers[h].runs)
                   => handlers[h].did = NothingPublished
            /\ SomeButNotAllFailed(handlers[h].runs)
                   => /\ HasPublished(h)
                      /\ NamesExactly(handlers[h].review.failed_agents,
                                      ActuallyFailed(handlers[h].runs))

\* the same for reviews in which no agent's own summary mentions
\* "401 Unauthorized"
NoSummaryMentions401(runs) ==
    \A k \in DOMAIN runs : runs[k].summary # SUMMARY_MENTIONS_401

C26_PublishUnlessAllFailedPlainSummaries ==
    \A h \in DOMAIN handlers :
        handlers[h].pc = "done" /\ NoSummaryMentions401(handlers[h].runs) =>
            /\ EveryAgentFailed(handlers[h].runs)
                   => handlers[h].did = NothingPublished
            /\ SomeButNotAllFailed(handlers[h].runs)
                   => /\ HasPublished(h)
                      /\ NamesExactly(handlers[h].review.failed_agents,
                                      ActuallyFailed(handlers[h].runs))

-----------------------------------------------------------------------------
(* C30: two webhook events for one pull request handled at the same time.
   The tasks of the two events run on one event loop and yield only at the
   await of the review, so their reviews overlap and either may publish
   first. *)

WebhookPublished(h) == HasPublished(h) /\ handlers[h].path = "webhook"

\* the findings a run posted as inline comments
InlinePostedBy(h) ==
    SubSeq(handlers[h].did.inline, 1,
           Min(Len(handlers[h].did.inline), INLINE_COMMENT_LIMIT))

\* (file, line, title) of the findings a run posted inline
PostedKeys(h) ==
    {<<InlinePostedBy(h)[k].file_path, InlinePostedBy(h)[k].line_start,
       InlinePostedBy(h)[k].title>> : k \in DOMAIN InlinePostedBy(h)}

HasStar(title) == \E i \in DOMAIN title : title[i] = "*"

PlainPostedKeys(h) == {key \in PostedKeys(h) : ~HasStar(key[3])}

\* C30: the runs of two webhook events never both answer one comment with a
\* Resolved reply and never both post an inline comment for one
\* (file, line, title), in whatever order they publish
C30_ConcurrentEventsPostOnce ==
    \A h1, h2 \in DOMAIN handlers :
        h1 # h2 /\ WebhookPublished(h1) /\ WebhookPublished(h2) =>
            /\ RepliedTo(h1) \cap RepliedTo(h2) = {}
            /\ PostedKeys(h1) \cap PostedKeys(h2) = {}

\* the same when the client knows its own login, for the findings whose title
\* has no star
C30_ConcurrentEventsPostOncePlainTitles ==
    \A h1, h2 \in DOMAIN handlers :
        /\ h1 # h2 /\ WebhookPublished(h1) /\ WebhookPublished(h2)
        /\ flowEnv.fetched = flowEnv.me
        => /\ RepliedTo(h1) \cap RepliedTo(h2) = {}
           /\ PlainPostedKeys(h1) \cap PlainPostedKeys(h2) = {}

\* the reviews of two webhook events reported the same finding with a plain
\* title; the run that published first posted it inline, the other did not
C30_BothReportedOnePosted ==
    \E h1, h2 \in DOMAIN handlers :
        /\ h1 # h2 /\ WebhookPublished(h1) /\ WebhookPublished(h2)
        /\ flowEnv.fetched = flowEnv.me
        /\ handlers[h1].runs = handlers[h2].runs
        /\ PlainPostedKeys(h1) # {} /\ PlainPostedKeys(h2) = {}

====
